---- MODULE Spec2Model ----
(***************************************************************************)
(* Model of the documentation-generation pipeline: fetch_code,             *)
(* parse_code_memory, summarize_code_node, generate_readme,                *)
(* visualize_code_node and analyze_project_structure, run in order by      *)
(* run_pipeline, with the four safe_llm_call retry wrappers around the     *)
(* LLM collaborator.                                                       *)
(*                                                                         *)
(* Encodings.  An Optional value is a sequence of length at most one:     *)
(* None is << >> and a value x is << x >>.  A dict that the code iterates  *)
(* is the sequence of its entries in insertion order.  A path is the       *)
(* sequence of its '/'-separated segments and a segment is the sequence of *)
(* its '.'-separated parts, so "src/big.py" is << <<"src">>,               *)
(* <<"big","py">> >>.  A text is the sequence of its words; the empty      *)
(* string is << >>.                                                        *)
(***************************************************************************)
EXTENDS Integers, Sequences, FiniteSets, TLC

VARIABLES
  state,    \* the GenerationState threaded through the stages
  pc,       \* position of run_pipeline
  call,     \* the safe_llm_call in progress or last finished
  loc,      \* locals of the stage in progress
  result,   \* the dict returned by run_pipeline, Optional
  error,    \* the exception that left run_pipeline, Optional
  response, \* the HTTP response of /generate, Optional
  history   \* the documentation records saved for the user

vars == <<state, pc, call, loc, result, error, response, history>>

None == << >>
Some(x) == << x >>
IsNone(o) == o = << >>
Val(o) == o[1]

RECURSIVE Pow2(_)
Pow2(n) == IF n = 0 THEN 1 ELSE 2 * Pow2(n - 1)

RECURSIVE SumLen(_, _)
\* total of Len over the strings of a sequence, plus sep between neighbours
SumLen(strs, sep) ==
  IF strs = << >> THEN 0
  ELSE Len(Head(strs)) + (IF Len(strs) > 1 THEN sep ELSE 0) + SumLen(Tail(strs), sep)

Last(s) == s[Len(s)]

(***************************************************************************)
(* Language Classifier and Exclusion Filter (parse_code_memory.py)         *)
(***************************************************************************)
LANGUAGE_EXTENSIONS ==
  << <<"python", {"py"}>>, <<"java", {"java"}>>, <<"javascript", {"js"}>>,
     <<"typescript", {"ts"}>>, <<"tsx", {"tsx"}>>, <<"html", {"html"}>>,
     <<"css", {"css"}>>, <<"c", {"c", "h"}>>,
     <<"cpp", {"cpp", "cc", "cxx", "hpp", "h"}>>, <<"go", {"go"}>>,
     <<"kotlin", {"kt"}>> >>

EXCLUDED_FILES ==
  {
    <<"package", "json">>, <<"package-lock", "json">>, <<"yarn", "lock">>,
    <<"pnpm-lock", "yaml">>, <<"bun", "lockb">>, <<"vite", "config", "ts">>,
    <<"vite", "config", "js">>, <<"webpack", "config", "js">>, <<"rollup", "config", "js">>,
    <<"esbuild", "config", "js">>, <<"snowpack", "config", "js">>,
    <<"metro", "config", "js">>, <<"vite-env", "d", "ts">>, <<"tsconfig", "json">>,
    <<"tsconfig", "app", "json">>, <<"tsconfig", "node", "json">>,
    <<"tsconfig", "base", "json">>, <<"tslint", "json">>, <<"eslint", "config", "js">>,
    <<"", "eslintrc", "js">>, <<"", "eslintrc", "json">>, <<"", "prettierrc">>,
    <<"", "prettierrc", "js">>, <<"", "prettierrc", "json">>, <<"", "stylelintrc">>,
    <<"", "stylelintrc", "json">>, <<"stylelint", "config", "js">>,
    <<"tailwind", "config", "js">>, <<"postcss", "config", "js">>,
    <<"babel", "config", "js">>, <<"", "babelrc">>, <<"", "babelrc", "js">>,
    <<"index", "html">>, <<"favicon", "ico">>, <<"robots", "txt">>, <<"sitemap", "xml">>,
    <<"", "editorconfig">>, <<"", "gitignore">>, <<"", "gitattributes">>, <<"", "npmrc">>,
    <<"", "nvmrc">>, <<"", "dockerignore">>, <<"", "env">>, <<"", "env", "local">>,
    <<"", "env", "development">>, <<"", "env", "production">>, <<"", "env", "test">>,
    <<"jest", "config", "js">>, <<"jest", "config", "ts">>, <<"karma", "conf", "js">>,
    <<"mocha", "opts">>, <<"vitest", "config", "ts">>, <<"cypress", "config", "js">>,
    <<"cypress", "json">>, <<"", "coveragerc">>, <<"tox", "ini">>, <<"pytest", "ini">>,
    <<"setup", "cfg">>, <<"vercel", "json">>, <<"netlify", "toml">>, <<"now", "json">>,
    <<"firebase", "json">>, <<"azure-pipelines", "yml">>, <<"Procfile">>, <<"Makefile">>,
    <<"Dockerfile">>, <<"docker-compose", "yml">>, <<"", "travis", "yml">>,
    <<"", "circleci/config", "yml">>, <<"", "github/workflows/main", "yml">>,
    <<"", "gitlab-ci", "yml">>, <<"README", "md">>, <<"README">>, <<"CONTRIBUTING", "md">>,
    <<"CHANGELOG", "md">>, <<"CODEOWNERS">>, <<"LICENSE">>, <<"LICENSE", "md">>,
    <<"SECURITY", "md">>, <<"SUPPORT", "md">>, <<"NOTICE">>, <<"AUTHORS">>,
    <<"requirements", "txt">>, <<"Pipfile">>, <<"Pipfile", "lock">>,
    <<"pyproject", "toml">>, <<"setup", "py">>, <<"MANIFEST", "in">>,
    <<"environment", "yml">>, <<"conda", "yml">>, <<"", "python-version">>,
    <<"", "pylintrc">>, <<"mypy", "ini">>, <<"pyrightconfig", "json">>, <<"", "flake8">>,
    <<"", "isort", "cfg">>, <<"mlruns">>, <<"dvc", "yaml">>, <<"dvc", "lock">>,
    <<"", "dvc">>, <<"wandb">>, <<"", "mlflow">>, <<"", "mlem">>, <<"output", "log">>,
    <<"checkpoints">>, <<"runs">>, <<"events", "out", "tfevents", "*">>,
    <<"tensorboard", "log">>, <<"lightning_logs">>, <<"", "ipynb_checkpoints">>,
    <<"*", "ipynb">>, <<"yarn-error", "log">>, <<"npm-debug", "log">>,
    <<"snapshot", "txt">>, <<"poetry", "lock">>, <<"poetry", "toml">>,
    <<"terraform", "tf">>, <<"terraform", "tfvars">>, <<"*", "tfstate">>,
    <<"*", "tfstate", "backup">>, <<"cloudbuild", "yaml">>, <<"", "helmignore">>,
    <<"Chart", "yaml">>, <<"values", "yaml">>, <<"kustomization", "yaml">>,
    <<"skaffold", "yaml">>, <<"", "DS_Store">>, <<"Thumbs", "db">>, <<"desktop", "ini">>
  }

EXCLUDED_FOLDERS ==
  {
    <<"node_modules">>, <<"venv">>, <<"", "venv">>, <<"env">>, <<"", "env">>, <<"", "git">>,
    <<"", "idea">>, <<"", "vscode">>, <<"__pycache__">>, <<"dist">>, <<"build">>,
    <<"", "next">>, <<"out">>, <<"", "parcel-cache">>, <<"coverage">>, <<"logs">>,
    <<"tmp">>, <<"temp">>
  }

\* file_name.endswith("." + ext): every extension of the table is one dot
\* followed by dot-free text, so the name ends with it exactly when its last
\* segment has a dot and its last part is ext
EndsWithExt(path, ext) ==
  /\ path # << >>
  /\ Len(Last(path)) >= 2
  /\ Last(Last(path)) = ext

detect_language_LastMatch(path) ==
  LET hits == {i \in 1..Len(LANGUAGE_EXTENSIONS) :
                 \E ext \in LANGUAGE_EXTENSIONS[i][2] : EndsWithExt(path, ext)}
  IN IF hits = {} THEN None
     ELSE Some(LANGUAGE_EXTENSIONS[CHOOSE i \in hits : \A j \in hits : i >= j][1])

\* the result is Optional: None when no extension matches
detect_language(path) ==
  LET hits == {i \in 1..Len(LANGUAGE_EXTENSIONS) :
                 \E ext \in LANGUAGE_EXTENSIONS[i][2] : EndsWithExt(path, ext)}
  IN IF hits = {} THEN None
     ELSE Some(LANGUAGE_EXTENSIONS[CHOOSE i \in hits : \A j \in hits : i <= j][1])

should_exclude_file_TopLevelOnly(path) ==
  \/ Len(path) = 1 /\ Last(path) \in EXCLUDED_FILES
  \/ path[1] \in EXCLUDED_FOLDERS

should_exclude_file(path) ==
  \/ Last(path) \in EXCLUDED_FILES
  \/ \E k \in 1..Len(path) : path[k] \in EXCLUDED_FOLDERS


(***************************************************************************)
(* The repositories the pipeline is run on.  A file's content is described *)
(* by what the Syntax-Tree Extractor makes of it: whether it raises, the   *)
(* number of lines and of stripped characters of the cleaned code, and the *)
(* extracted symbol names.                                                 *)
(***************************************************************************)
File(path, parses, lines, chars, symbols) ==
  [path |-> path, parses |-> parses, lines |-> lines, chars |-> chars, symbols |-> symbols]

F_main   == File(<< <<"main", "py">> >>, TRUE, 5, 120, <<"f">>)
F_readme == File(<< <<"README", "md">> >>, TRUE, 3, 40, << >>)
F_a      == File(<< <<"a", "py">> >>, TRUE, 1, 13, <<"f">>)
F_minjs  == File(<< <<"a", "min", "js">> >>, TRUE, 1, 900, << >>)
F_nm     == File(<< <<"node_modules">>, <<"x", "js">> >>, TRUE, 2, 60, <<"x">>)
F_big    == File(<< <<"src">>, <<"big", "py">> >>, TRUE, 295, 9000, <<"g", "g">>)
F_notes  == File(<< <<"notes", "txt">> >>, TRUE, 2, 30, << >>)
F_blank  == File(<< <<"blank", "py">> >>, TRUE, 0, 0, << >>)
F_bad    == File(<< <<"bad", "go">> >>, FALSE, 0, 0, << >>)
F_css    == File(<< <<"style", "css">> >>, TRUE, 4, 80, << >>)
F_script == File(<< <<"script", "py">> >>, TRUE, 8, 200, << >>)
F_bundle == File(<< <<"web">>, <<"App", "Bundle", "js">> >>, TRUE, 6, 300, <<"render">>)

Repos ==
  { << >>,
    << F_readme, F_notes >>,
    << F_main, F_readme >>,
    << F_a, F_minjs, F_nm >>,
    << F_big, F_blank, F_bad, F_main >>,
    << F_css, F_script, F_bundle, F_main >> }

(***************************************************************************)
(* Parse: parse_code_from_memory and parse_code_memory                     *)
(***************************************************************************)
\* one iteration of the loop of parse_code_from_memory: the entry added for
\* one file, as a sequence of zero or one entries
parse_one_NoFilter(f) ==
  IF IsNone(detect_language(f.path)) THEN << >>
  ELSE IF ~f.parses THEN << >>
  ELSE << [key |-> f.path,
           file |-> f.path,
           code |-> [lines |-> f.lines, chars |-> f.chars],
           type |-> Val(detect_language(f.path)),
           contains |-> f.symbols] >>

\* `key` is the key of the entry in the structure dict
parse_one(f) ==
  IF should_exclude_file(f.path) THEN << >>
  ELSE IF IsNone(detect_language(f.path)) THEN << >>
  ELSE IF ~f.parses THEN << >>
  ELSE << [key |-> f.path,
           file |-> f.path,
           code |-> [lines |-> f.lines, chars |-> f.chars],
           type |-> Val(detect_language(f.path)),
           contains |-> f.symbols] >>

RECURSIVE parse_code_from_memory(_)
parse_code_from_memory(files_content) ==
  IF files_content = << >> THEN << >>
  ELSE parse_one(Head(files_content)) \o parse_code_from_memory(Tail(files_content))

NoFilesContent_AbsentOnly(st) == IsNone(st.files_content)

\* `not hasattr(state, 'files_content') or not state.files_content`
NoFilesContent(st) == IsNone(st.files_content) \/ Val(st.files_content) = << >>

\* (state.parsed_data or {}).get("repo_path", {}): parsed_data is None, or the
\* dict whose "repo_path" entry, present only when non-empty, is Val(parsed_data)
RepoData(st) == IF IsNone(st.parsed_data) THEN << >> ELSE Val(st.parsed_data)

\* `not state.parsed_data`: None or the empty dict
NoParsedData(st) == RepoData(st) = << >>

(***************************************************************************)
(* The LLM collaborator and the four safe_llm_call retry wrappers          *)
(***************************************************************************)
Wrappers == {"summarize", "readme", "visualize", "analyze"}

\* messages of the exceptions the collaborator raises
LLMErrors == {"429 Too Many Requests", "rate limit exceeded", "401 invalid api key"}
Has429(e) == e = "429 Too Many Requests"
HasRateLimit(e) == e = "rate limit exceeded"

SUMMARIZE_MAX_RETRIES == 5
SUMMARIZE_BASE_WAIT == 2
README_RETRIES == 5
README_BASE_DELAY == 5
VISUALIZE_MAX_RETRIES == 5
VISUALIZE_BASE_WAIT == 2
ANALYZE_MAX_RETRIES == 5
ANALYZE_BASE_WAIT == 2

max_retries_Six(w) == 6

max_retries_Two(w) == 2

max_retries(w) ==
  CASE w = "summarize" -> SUMMARIZE_MAX_RETRIES
    [] w = "readme"    -> README_RETRIES
    [] w = "visualize" -> VISUALIZE_MAX_RETRIES
    [] w = "analyze"   -> ANALYZE_MAX_RETRIES

base_wait(w) ==
  CASE w = "summarize" -> SUMMARIZE_BASE_WAIT
    [] w = "readme"    -> README_BASE_DELAY
    [] w = "visualize" -> VISUALIZE_BASE_WAIT
    [] w = "analyze"   -> ANALYZE_BASE_WAIT

\* the except clause of each wrapper: TRUE when the wrapper sleeps and goes on
\* to the next attempt, FALSE when it re-raises the collaborator's exception
retries_on(w, e) ==
  CASE w = "summarize" -> TRUE
    [] w = "analyze"   -> TRUE
    [] w = "readme"    -> Has429(e)
    [] w = "visualize" -> Has429(e) \/ HasRateLimit(e)

backoff_Linear(w, attempt) == base_wait(w) * (attempt + 1)

\* the deterministic part of the delay slept after the failure of the attempt
\* with 0-based index `attempt`; the code adds random.uniform jitter to it
backoff(w, attempt) == base_wait(w) * Pow2(attempt)

\* the exception raised after the loop
exhausted(w) == IF w = "readme" THEN "Exception: Max retries exceeded for LLM call"
                ELSE "RuntimeError: LLM call failed after maximum retries."

\* what the collaborator can answer to a prompt of each wrapper
Responses(w) ==
  CASE w = "summarize" -> {"bullet", "long bullet", "plain"}
    [] w = "readme"    -> {"markdown", "fenced markdown"}
    [] w = "visualize" -> {"diagram"}
    [] w = "analyze"   -> {"sections"}

NoCall == [w |-> "none", status |-> "idle", attempt |-> 0, hist |-> << >>,
           delays |-> << >>, value |-> "", exc |-> ""]
StartCall(w) == [NoCall EXCEPT !.w = w, !.status = "trying"]
\* the caller has taken the outcome; w and exc stay as the record of who
\* called last and of the exception it ended with, if any
EndCall(c) == [NoCall EXCEPT !.w = c.w, !.exc = c.exc]
CallActive == call.status \in {"trying", "sleeping"}
CallOver == call.status \in {"returned", "raised"}

\* one pass through the try statement: the collaborator is called once.
\* hist records each call of this unit of work as "ok" or "error"; exc is the
\* message of the exception caught or raised last
llm_attempt(answers, errors) ==
  /\ call.status = "trying"
  /\ \/ \E r \in answers :
          call' = [call EXCEPT !.status = "returned", !.hist = Append(@, "ok"),
                               !.value = r]
     \/ \E e \in errors :
          call' = [call EXCEPT !.hist = Append(@, "error"),
                               !.status = IF retries_on(call.w, e) THEN "sleeping"
                                          ELSE "raised",
                               !.exc = e]
  /\ UNCHANGED <<state, pc, loc, result, error>>

LLMCall ==
  /\ llm_attempt(Responses(call.w), LLMErrors)
  /\ UNCHANGED <<response, history>>

\* time.sleep, then the next iteration or the raise after the loop
LLMSleep ==
  /\ call.status = "sleeping"
  /\ LET last == call.attempt + 1 >= max_retries(call.w) IN
     call' = [call EXCEPT !.delays = Append(@, backoff(call.w, call.attempt)),
                          !.attempt = @ + 1,
                          !.status = IF last THEN "raised" ELSE "trying",
                          !.exc = IF last THEN exhausted(call.w) ELSE ""]
  /\ UNCHANGED <<state, pc, loc, result, error>>
  /\ UNCHANGED <<response, history>>

(***************************************************************************)
(* Fetch: fetch_code                                                       *)
(***************************************************************************)
InputTypes == {"github", "repo", "url", "zip", "upload", "gitlab"}

\* input_data is a str (a URL or base64 text) or a dict of path to content
StrInput == [kind |-> "str", files |-> << >>]
DictInput(repo) == [kind |-> "dict", files |-> repo]

Raise(e) ==
  /\ pc' = "raised"
  /\ error' = Some(e)

next_stage_VisualizeFirst(stage) ==
  CASE stage = "fetch"     -> "parse"
    [] stage = "parse"     -> "summarize"
    [] stage = "summarize" -> "visualize"
    [] stage = "visualize" -> "readme"
    [] stage = "readme"    -> "analyze"
    [] stage = "analyze"   -> "output"
    [] stage = "output"    -> "done"

\* the order in which run_pipeline calls the stages
next_stage(stage) ==
  CASE stage = "fetch"     -> "parse"
    [] stage = "parse"     -> "summarize"
    [] stage = "summarize" -> "readme"
    [] stage = "readme"    -> "visualize"
    [] stage = "visualize" -> "analyze"
    [] stage = "analyze"   -> "output"
    [] stage = "output"    -> "done"

\* the messages of the requests.HTTPError that fetch_repo_tree raises: its
\* own for a 403, and those of raise_for_status
HTTPErrors ==
  { "GitHub API rate limit exceeded",
    "404 Client Error: Not Found for url: repos/o/r",
    "500 Server Error for url: repos/o/r",
    "403 Client Error: rate limit exceeded for url: repos/o/r404" }

\* the branches of fetch_code; `remote` is what the GitHub download or the
\* ZIP archive holds.  download_repo_to_memory raises ValueError or HTTPError,
\* and AttributeError when the URL is not a str
fetch_github(remote) ==
  \/ /\ state.input_data.kind = "str"
     /\ state' = [state EXCEPT !.files_content = Some(remote)]
     /\ pc' = next_stage("fetch")
     /\ UNCHANGED error
  \/ /\ state.input_data.kind = "str"
     /\ \E e \in {"ValueError"} \cup HTTPErrors : Raise(e)
     /\ UNCHANGED state
  \/ /\ state.input_data.kind = "dict"
     /\ Raise("AttributeError")
     /\ UNCHANGED state

fetch_zip(remote) ==
  \/ /\ state.input_data.kind = "str"
     /\ state' = [state EXCEPT !.files_content = Some(remote)]
     /\ pc' = next_stage("fetch")
     /\ UNCHANGED error
  \/ /\ \E e \in (IF state.input_data.kind = "str" THEN {"BadZipFile", "binascii.Error"}
                 ELSE {"TypeError"}) : Raise(e)
     /\ UNCHANGED state

fetch_upload ==
  IF state.input_data.kind = "dict"
  THEN /\ state' = [state EXCEPT !.files_content = Some(state.input_data.files)]
       /\ pc' = next_stage("fetch")
       /\ UNCHANGED error
  ELSE /\ Raise("ValueError")
       /\ UNCHANGED state

fetch_unsupported ==
  /\ Raise("ValueError")
  /\ UNCHANGED state

fetch_code_AnyTypeIsGithub(remote) ==
  CASE state.input_type = "zip" -> fetch_zip(remote)
    [] state.input_type = "upload" -> fetch_upload
    [] OTHER -> fetch_github(remote)

\* the whole of fetch_code
fetch_code(remote) ==
  CASE state.input_type \in {"github", "repo", "url"} -> fetch_github(remote)
    [] state.input_type = "zip" -> fetch_zip(remote)
    [] state.input_type = "upload" -> fetch_upload
    [] OTHER -> fetch_unsupported

Fetch ==
  /\ pc = "fetch"
  /\ \E remote \in Repos : fetch_code(remote)
  /\ UNCHANGED <<call, loc, result>>
  /\ UNCHANGED <<response, history>>

\* run_pipeline's check and parse_code_memory
Parse ==
  /\ pc = "parse"
  /\ IF NoFilesContent(state)
     THEN /\ Raise("RuntimeError")
          /\ UNCHANGED state
     ELSE /\ state' = [state EXCEPT
                 !.parsed_data = Some(parse_code_from_memory(Val(state.files_content)))]
          /\ pc' = next_stage("parse")
          /\ UNCHANGED error
  /\ UNCHANGED <<call, loc, result>>
  /\ UNCHANGED <<response, history>>

(***************************************************************************)
(* Summarize: summarize_only_node and summarize_code_node                  *)
(***************************************************************************)
CHUNK_SIZE == 300
CHUNK_OVERLAP == 10

Min(a, b) == IF a <= b THEN a ELSE b

\* the loop `for i in range(0, len(lines), lines_per_chunk - overlap)`: a chunk
\* is the half-open range of the 0-based line numbers it holds
RECURSIVE split_from(_, _, _, _)
split_from(i, n, lines_per_chunk, overlap) ==
  IF i >= n THEN << >>
  ELSE << [from |-> i, to |-> Min(i + lines_per_chunk, n)] >>
       \o split_from(i + (lines_per_chunk - overlap), n, lines_per_chunk, overlap)

split_code_into_chunks(n, lines_per_chunk, overlap) ==
  split_from(0, n, lines_per_chunk, overlap)

\* the lines of the collaborator's answers to a Summarize prompt: whether the
\* stripped line starts with '-', the symbol the pattern `symbol: text` finds
\* in it ("" when the pattern does not match) and the remaining text.  The
\* word "s" stands for a sentence of 100 characters, "L" for 3500 characters
Line(dash, symbol, text) == [dash |-> dash, symbol |-> symbol, text |-> text]

ResponseLines(r) ==
  CASE r = "bullet"      -> << Line(FALSE, "", <<"s">>), Line(TRUE, "", <<"s">>) >>
    [] r = "long bullet" -> << Line(TRUE, "parse", <<"L">>) >>
    [] r = "plain"       -> << Line(FALSE, "", <<"s">>) >>
    [] OTHER             -> << >>

parse_llm_summary_response(r) ==
  LET lines == SelectSeq(ResponseLines(r), LAMBDA l : l.dash)
  IN [k \in 1..Len(lines) |->
        [symbol |-> IF lines[k].symbol = "" THEN None ELSE Some(lines[k].symbol),
         summary |-> lines[k].text]]

\* " ".join of the texts that are not empty
RECURSIVE JoinTexts(_)
JoinTexts(ts) == IF ts = << >> THEN << >> ELSE Head(ts) \o JoinTexts(Tail(ts))

combined_summary(acc) == JoinTexts([k \in 1..Len(acc) |-> acc[k].summary])

NoSummaryAvailable == <<"No summary available.">>

Put(f, k, v) == [x \in (DOMAIN f) \cup {k} |-> IF x = k THEN v ELSE f[x]]

store_summary_Appends(st, info, acc) ==
  LET old == IF IsNone(st.readme_summaries) THEN << >> ELSE Val(st.readme_summaries)
      before == IF info.file \in DOMAIN st.summaries THEN st.summaries[info.file] ELSE << >>
      combined == before \o combined_summary(acc)
  IN [st EXCEPT
        !.readme_summaries =
           Some(Append(old, [file |-> info.file,
                             summary |-> IF combined # << >> THEN combined
                                         ELSE NoSummaryAvailable,
                             type |-> info.type,
                             contains |-> info.contains])),
        !.summaries = Put(@, info.file, combined)]

\* lines 88-104 of summarize_code_node: the entry of file_path in
\* readme_summaries is replaced and summaries[file_path] is set
store_summary(st, info, acc) ==
  LET combined == combined_summary(acc)
      old == IF IsNone(st.readme_summaries) THEN << >> ELSE Val(st.readme_summaries)
      kept == SelectSeq(old, LAMBDA s : s.file # info.file)
  IN [st EXCEPT
        !.readme_summaries =
           Some(Append(kept, [file |-> info.file,
                              summary |-> IF combined # << >> THEN combined
                                          ELSE NoSummaryAvailable,
                              type |-> info.type,
                              contains |-> info.contains])),
        !.summaries = Put(@, info.file, combined)]

\* the early returns of summarize_code_node
summarize_skips_IgnoresPreference(st, info) ==
  \/ NoParsedData(st)
  \/ info.code.chars = 0

summarize_skips(st, info) ==
  \/ ~st.preferences.generate_summary
  \/ NoParsedData(st)
  \/ info.code.chars = 0

LocInit == [step |-> "begin", i |-> 1, chunks |-> << >>, c |-> 0, acc |-> << >>,
            partials |-> << >>, detailed |-> << >>, p1 |-> "", p2 |-> ""]

\* summarize_code_node up to its first LLM call, for the file info
summarize_begin(info) ==
  /\ state' = [state EXCEPT !.current_file_path = Some(info.file)]
  /\ IF summarize_skips(state, info)
     THEN /\ loc' = [loc EXCEPT !.i = @ + 1]
          /\ UNCHANGED call
     ELSE /\ loc' = [loc EXCEPT
                 !.chunks = split_code_into_chunks(info.code.lines, CHUNK_SIZE, CHUNK_OVERLAP),
                 !.c = 1, !.acc = << >>]
          /\ call' = StartCall("summarize")

\* the body of the loop of summarize_only_node, up to the first LLM call
SummarizeFile ==
  /\ pc = "summarize"
  /\ call.status = "idle"
  /\ loc.i <= Len(RepoData(state))
  /\ summarize_begin(RepoData(state)[loc.i])
  /\ UNCHANGED <<pc, result, error>>
  /\ UNCHANGED <<response, history>>

\* the entry of parsed_data for state.current_file_path
current_info ==
  CHOOSE e \in {RepoData(state)[k] : k \in 1..Len(RepoData(state))} :
    Some(e.file) = state.current_file_path

\* after the try statement of one chunk, acc being all_structured_summaries:
\* the next chunk's call, or lines 88-106 and the return
after_chunk(acc) ==
  IF loc.c < Len(loc.chunks)
  THEN /\ loc' = [loc EXCEPT !.c = @ + 1, !.acc = acc]
       /\ call' = StartCall("summarize")
       /\ UNCHANGED state
  ELSE /\ state' = store_summary(state, current_info, acc)
       /\ loc' = [loc EXCEPT !.i = @ + 1, !.chunks = << >>, !.c = 0, !.acc = << >>]
       /\ call' = EndCall(call)

SummarizeChunkDone_Uncaught ==
  /\ pc = "summarize"
  /\ call.w = "summarize"
  /\ CallOver
  /\ IF call.status = "returned"
     THEN /\ after_chunk(loc.acc \o parse_llm_summary_response(call.value))
          /\ UNCHANGED <<pc, error>>
     ELSE /\ Raise(call.exc)
          /\ UNCHANGED <<state, loc, call>>
  /\ UNCHANGED result
  /\ UNCHANGED <<response, history>>

\* the try statement around one chunk's call has ended: the answer is parsed
\* and added, or the exception is caught
SummarizeChunkDone ==
  /\ pc = "summarize"
  /\ call.w = "summarize"
  /\ CallOver
  /\ IF call.status = "returned"
     THEN after_chunk(loc.acc \o parse_llm_summary_response(call.value))
     ELSE after_chunk(loc.acc)
  /\ UNCHANGED <<pc, result, error>>
  /\ UNCHANGED <<response, history>>

\* summarize_only_node returns
SummarizeReturn ==
  /\ pc = "summarize"
  /\ call.status = "idle"
  /\ loc.i > Len(RepoData(state))
  /\ pc' = next_stage("summarize")
  /\ loc' = LocInit
  /\ UNCHANGED <<state, call, result, error>>
  /\ UNCHANGED <<response, history>>

(***************************************************************************)
(* Synthesize README: generate_readme                                      *)
(***************************************************************************)
README_MAX_CHARS == 6000

\* len() of the strings the stage builds.  A word's length is its own, but
\* for the two sentence words of the collaborator's answers
WordLen(w) == IF w = "s" THEN 100 ELSE IF w = "L" THEN 3500 ELSE Len(w)

RECURSIVE TextLen(_)
TextLen(t) ==
  IF t = << >> THEN 0
  ELSE WordLen(Head(t)) + (IF Len(t) > 1 THEN 1 ELSE 0) + TextLen(Tail(t))

RECURSIVE PathLen(_)
PathLen(path) ==
  IF path = << >> THEN 0
  ELSE SumLen(Head(path), 1) + (IF Len(path) > 1 THEN 1 ELSE 0) + PathLen(Tail(path))

\* len of "#### `{file}` ({ftype})\n- Summary: {summary}" and, when contains
\* is not empty, "\n- Contains: {', '.join(contains)}"
section_len(item) ==
  (6 + PathLen(item.file) + 3 + Len(item.type) + 1)
  + 1 + (11 + TextLen(item.summary))
  + (IF item.contains # << >> THEN 1 + 12 + SumLen(item.contains, 2) ELSE 0)

\* chunk_summaries on the lengths of the summaries: a chunk is the sequence of
\* the indices of the summaries joined in it
RECURSIVE chunk_loop(_, _, _, _, _, _)
chunk_loop(lens, k, chunks, current_chunk, current_len, max_chars) ==
  IF k > Len(lens)
  THEN IF current_chunk # << >> THEN Append(chunks, current_chunk) ELSE chunks
  ELSE IF current_len + lens[k] > max_chars
       THEN chunk_loop(lens, k + 1, Append(chunks, current_chunk), <<k>>, lens[k], max_chars)
       ELSE chunk_loop(lens, k + 1, chunks, Append(current_chunk, k),
                       current_len + lens[k], max_chars)

chunk_summaries(lens, max_chars) == chunk_loop(lens, 1, << >>, << >>, 0, max_chars)

\* the section lengths of state.readme_summaries
summaries_section(st) ==
  IF IsNone(st.readme_summaries) THEN << >>
  ELSE [k \in 1..Len(Val(st.readme_summaries)) |-> section_len(Val(st.readme_summaries)[k])]

\* the think block and the code fence are removed
clean_llm_markdown_response(r) ==
  CASE r = "markdown" -> "markdown"
    [] r = "fenced markdown" -> "markdown"
    [] OTHER -> r

\* generate_readme up to its first LLM call
ReadmeBegin ==
  /\ pc = "readme"
  /\ loc.step = "begin"
  /\ IF ~state.preferences.generate_readme
     THEN /\ pc' = next_stage("readme")
          /\ UNCHANGED <<loc, call>>
     ELSE LET chunks == chunk_summaries(summaries_section(state), README_MAX_CHARS)
          IN /\ loc' = [loc EXCEPT !.step = IF chunks = << >> THEN "final" ELSE "partial",
                                   !.chunks = chunks, !.c = 1, !.partials = << >>]
             /\ call' = StartCall("readme")
             /\ UNCHANGED pc
  /\ UNCHANGED <<state, result, error>>
  /\ UNCHANGED <<response, history>>

\* a partial 'Code Summary' call has ended: its exception is not caught
ReadmePartialDone ==
  /\ pc = "readme"
  /\ loc.step = "partial"
  /\ CallOver
  /\ IF call.status = "raised"
     THEN /\ Raise(call.exc)
          /\ call' = EndCall(call)
          /\ UNCHANGED loc
     ELSE /\ loc' = [loc EXCEPT
                 !.partials = Append(@, clean_llm_markdown_response(call.value)),
                 !.c = @ + 1,
                 !.step = IF loc.c < Len(loc.chunks) THEN "partial" ELSE "final"]
          /\ call' = StartCall("readme")
          /\ UNCHANGED <<pc, error>>
  /\ UNCHANGED <<state, result>>
  /\ UNCHANGED <<response, history>>

ReadmeFinalDone_ClearsSummaries ==
  /\ pc = "readme"
  /\ loc.step = "final"
  /\ CallOver
  /\ state' = [state EXCEPT
        !.readme = IF call.status = "returned"
                   THEN Some(clean_llm_markdown_response(call.value))
                   ELSE Some(""),
        !.readme_summaries = None]
  /\ call' = EndCall(call)
  /\ pc' = next_stage("readme")
  /\ loc' = LocInit
  /\ UNCHANGED <<result, error>>
  /\ UNCHANGED <<response, history>>

\* the try statement around the final README call has ended
ReadmeFinalDone ==
  /\ pc = "readme"
  /\ loc.step = "final"
  /\ CallOver
  /\ state' = [state EXCEPT
        !.readme = IF call.status = "returned"
                   THEN Some(clean_llm_markdown_response(call.value))
                   ELSE Some("")]
  /\ call' = EndCall(call)
  /\ pc' = next_stage("readme")
  /\ loc' = LocInit
  /\ UNCHANGED <<result, error>>
  /\ UNCHANGED <<response, history>>

(***************************************************************************)
(* Visualize: visualize_code_node                                          *)
(***************************************************************************)
\* visualize_code_node up to the Phase 1 call
VisualizeBegin ==
  /\ pc = "visualize"
  /\ loc.step = "begin"
  /\ IF NoParsedData(state)
     THEN /\ pc' = next_stage("visualize")
          /\ UNCHANGED <<loc, call>>
     ELSE /\ loc' = [loc EXCEPT !.step = "phase1"]
          /\ call' = StartCall("visualize")
          /\ UNCHANGED pc
  /\ UNCHANGED <<state, result, error>>
  /\ UNCHANGED <<response, history>>

\* Phase 1 or Phase 2 has ended: the answer, or the fixed text of the handler
VisualizePhaseDone ==
  /\ pc = "visualize"
  /\ loc.step \in {"phase1", "phase2"}
  /\ CallOver
  /\ LET got == IF call.status = "returned" THEN "llm" ELSE "fallback"
     IN loc' = IF loc.step = "phase1"
               THEN [loc EXCEPT !.step = "phase2", !.p1 = got]
               ELSE [loc EXCEPT !.step = "phase3", !.p2 = got]
  /\ call' = StartCall("visualize")
  /\ UNCHANGED <<state, pc, result, error>>
  /\ UNCHANGED <<response, history>>

\* Phase 3 has ended.  The handler's fallback diagram is named after
\* state.input_data.split('/')[-1], which a dict does not have
VisualizeStore ==
  /\ pc = "visualize"
  /\ loc.step = "phase3"
  /\ CallOver
  /\ call' = EndCall(call)
  /\ IF call.status = "raised" /\ state.input_data.kind = "dict"
     THEN /\ Raise("AttributeError")
          /\ UNCHANGED <<state, loc>>
     ELSE /\ state' = [state EXCEPT !.visuals =
                 Some([folder_structure_mermaid |->
                         IF call.status = "returned" THEN "llm diagram"
                         ELSE "fallback diagram"])]
          /\ pc' = next_stage("visualize")
          /\ loc' = LocInit
          /\ UNCHANGED error
  /\ UNCHANGED result
  /\ UNCHANGED <<response, history>>

(***************************************************************************)
(* Analyze: analyze_project_structure                                      *)
(***************************************************************************)
NonCodeLanguages == {"css", "scss", "sass", "less", "html", "json", "yaml", "yml"}

ANALYZE_MIN_CHARS == 50

\* `pattern in filename`, on the '.'-separated parts of both.  The pattern
\* occurs where its parts lie on consecutive parts of the name; an empty
\* first part (the pattern starts with a dot) lies on any part.  Inside one
\* part the pattern's text may be a substring, prefix or suffix of the name's:
\* for the parts of the modelled repositories that is equality
skip_patterns ==
  { <<"package", "json">>, <<"package-lock", "json">>, <<"yarn", "lock">>,
    <<"pnpm-lock", "yaml">>, <<"tsconfig">>, <<"webpack">>, <<"vite", "config">>,
    <<"babel">>, <<"eslint">>, <<"", "lock">>, <<"", "min", "js">>,
    <<"", "bundle", "js">> }

pattern_in(pat, name) ==
  \E k \in 0..(Len(name) - Len(pat)) :
    \A j \in 1..Len(pat) : pat[j] = "" \/ name[k + j] = pat[j]

\* str.lower, on the parts of the names of the modelled repositories
lower_part(part) ==
  CASE part = "App" -> "app"
    [] part = "Bundle" -> "bundle"
    [] part = "README" -> "readme"
    [] OTHER -> part

lower(name) == [k \in 1..Len(name) |-> lower_part(name[k])]

analyze_eligible_KeepsSymbolless(info) ==
  /\ info.type \notin NonCodeLanguages
  /\ info.code.chars >= ANALYZE_MIN_CHARS
  /\ ~\E pat \in skip_patterns : pattern_in(pat, lower(Last(info.file)))

\* the four skip tests of the loop body, negated
analyze_eligible(info) ==
  /\ info.type \notin NonCodeLanguages
  /\ info.code.chars >= ANALYZE_MIN_CHARS
  /\ info.contains # << >>
  /\ ~\E pat \in skip_patterns : pattern_in(pat, lower(Last(info.file)))

\* A text is the sequence of its lines and a line the sequence of its words,
\* which single blanks separate; the word "" stands where str.replace has
\* taken a phrase out, so that the blanks on its two sides remain.  The
\* answer of the LLM is the sequence of the texts between its '**' marks,
\* which is what response.split("**") returns
Reverse(s) == [k \in 1..Len(s) |-> s[Len(s) + 1 - k]]

RECURSIVE drop_blank_words(_)
drop_blank_words(l) ==
  IF l # << >> /\ Head(l) = "" THEN drop_blank_words(Tail(l)) ELSE l

\* str.strip of one line
strip_line(l) == Reverse(drop_blank_words(Reverse(drop_blank_words(l))))

blank_line(l) == \A j \in 1..Len(l) : l[j] = ""

RECURSIVE drop_blank_lines(_)
drop_blank_lines(t) ==
  IF t # << >> /\ blank_line(Head(t)) THEN drop_blank_lines(Tail(t)) ELSE t

\* str.strip of a text: the blank lines at both ends, the blanks before its
\* first word and those after its last; the empty string is << >>
strip(t) ==
  LET b == Reverse(drop_blank_lines(Reverse(drop_blank_lines(t))))
  IN IF b = << >> THEN << >>
     ELSE [k \in 1..Len(b) |->
             LET l1 == IF k = 1 THEN drop_blank_words(b[k]) ELSE b[k]
             IN IF k = Len(b) THEN Reverse(drop_blank_words(Reverse(l1))) ELSE l1]

\* str.replace(phrase, "") inside one line, case-sensitive
RECURSIVE replace_line(_, _)
replace_line(l, phrase) ==
  IF Len(l) < Len(phrase) THEN l
  ELSE IF SubSeq(l, 1, Len(phrase)) = phrase
       THEN <<"">> \o replace_line(SubSeq(l, Len(phrase) + 1, Len(l)), phrase)
       ELSE <<Head(l)>> \o replace_line(Tail(l), phrase)

replace(t, phrase) == [k \in 1..Len(t) |-> replace_line(t[k], phrase)]

\* str.upper, on the words of the modelled answers
upper_word(w) ==
  CASE w = "Purpose:" -> "PURPOSE:"
    [] w = "Key" -> "KEY"
    [] w = "Functions:" -> "FUNCTIONS:"
    [] OTHER -> w

\* section.upper().startswith(phrase) for a stripped section: the words of
\* the modelled answers are never longer words that begin with a phrase word
starts_with_upper(section, phrase) ==
  /\ section # << >>
  /\ Len(section[1]) >= Len(phrase)
  /\ \A j \in 1..Len(phrase) : upper_word(section[1][j]) = phrase[j]

\* the loop over the lines of a section's content: a line that begins with
\* '-' or '*' gives its text after the marker, unless that text is empty
bullet_lines(content) ==
  LET stripped == [k \in 1..Len(strip(content)) |-> strip_line(strip(content)[k])]
      marked == SelectSeq(stripped, LAMBDA l : l # << >> /\ Head(l) \in {"-", "*"})
      texts == [k \in 1..Len(marked) |-> strip_line(Tail(marked[k]))]
  IN SelectSeq(texts, LAMBDA l : l # << >>)

NoSections == [summary |-> << >>, purpose |-> << >>, functions |-> << >>,
               key_details |-> << >>]

\* the content of the section at i for the two list branches: the text
\* between the next pair of marks if there is one, else the section itself
\* without the header
section_content(sections, i, header) ==
  IF i + 1 <= Len(sections) THEN sections[i + 1]
  ELSE strip(replace(strip(sections[i]), header))

\* the for loop over range(len(sections)), from index i on
RECURSIVE parse_sections(_, _, _)
parse_sections(sections, i, res) ==
  IF i > Len(sections) THEN res
  ELSE LET section == strip(sections[i]) IN
       parse_sections(sections, i + 1,
         IF starts_with_upper(section, <<"PURPOSE:">>)
         THEN LET content == strip(replace(section, <<"PURPOSE:">>))
              IN [res EXCEPT !.purpose = content, !.summary = content]
         ELSE IF starts_with_upper(section, <<"KEY", "FUNCTIONS:">>)
         THEN [res EXCEPT !.functions =
                 @ \o bullet_lines(section_content(sections, i, <<"KEY", "FUNCTIONS:">>))]
         ELSE IF starts_with_upper(section, <<"TECHNICAL", "DETAILS:">>)
         THEN [res EXCEPT !.key_details =
                 @ \o bullet_lines(section_content(sections, i, <<"TECHNICAL", "DETAILS:">>))]
         ELSE res)

\* the line the fallback writes for a symbol: the symbol between backquotes
\* with "()" after it, then the fixed text
symbol_line(sym) == <<"quoted", sym, "()", "-", "Function or class in this file">>

GenericPurpose == << <<"This file is part of the application codebase.">> >>

parse_analysis_response(answer, symbols) ==
  LET parsed == parse_sections(answer, 1, NoSections)
      with_functions ==
        IF parsed.functions = << >> /\ symbols # << >>
        THEN [parsed EXCEPT !.functions =
                [k \in 1..Min(Len(symbols), 5) |-> symbol_line(symbols[k])]]
        ELSE parsed
  IN IF with_functions.purpose = << >>
     THEN [with_functions EXCEPT !.purpose = GenericPurpose, !.summary = GenericPurpose]
     ELSE with_functions

\* an answer with each header between marks on a line of its own, the
\* purpose text and the bullet lines after them
Sectioned(functions_header, purpose, functions, details) ==
  << << >>,
     << <<"PURPOSE:">> >>,
     << << >> >> \o purpose \o << << >>, << >> >>,
     << functions_header >>,
     << << >> >> \o functions \o << << >>, << >> >>,
     << <<"TECHNICAL", "DETAILS:">> >>,
     << << >> >> \o details >>

\* the answer in the format the prompt asks for
Prompted(purpose, functions, details) ==
  Sectioned(<<"KEY", "FUNCTIONS", "&", "COMPONENTS:">>, purpose, functions, details)

\* the text of the answers of the collaborator of the Analyze wrapper
AnalysisText(r) ==
  CASE r = "sections" ->
         Prompted(<< <<"Parses", "the", "files.">> >>,
                  << <<"-", "f()", "-", "parses">> >>,
                  << <<"-", "Uses", "tree-sitter">> >>)
    [] OTHER -> << << >> >>

\* the two early returns
AnalyzeBegin ==
  /\ pc = "analyze"
  /\ loc.step = "begin"
  /\ IF NoParsedData(state)
     THEN pc' = next_stage("analyze") /\ UNCHANGED loc
     ELSE loc' = [loc EXCEPT !.step = "files", !.i = 1, !.detailed = << >>] /\ UNCHANGED pc
  /\ UNCHANGED <<state, call, result, error>>
  /\ UNCHANGED <<response, history>>

\* the loop body up to the LLM call
AnalyzeFile ==
  /\ pc = "analyze"
  /\ loc.step = "files"
  /\ call.status = "idle"
  /\ loc.i <= Len(RepoData(state))
  /\ IF analyze_eligible(RepoData(state)[loc.i])
     THEN call' = StartCall("analyze") /\ UNCHANGED loc
     ELSE loc' = [loc EXCEPT !.i = @ + 1] /\ UNCHANGED call
  /\ UNCHANGED <<state, pc, result, error>>
  /\ UNCHANGED <<response, history>>

\* parse_analysis_response on each answer of the collaborator, for the symbol
\* lists of the files of the repositories
ParsedAnswers ==
  [r \in Responses("analyze") |->
     [symbols \in {<< >>} \cup UNION {{repo[k].symbols : k \in 1..Len(repo)} : repo \in Repos} |->
        parse_analysis_response(AnalysisText(r), symbols)]]

\* detailed_analysis[file_path] after a parsed answer: the parsed sections
\* with the keys language and symbols

analysis_entry(info, r) ==
  LET parsed == ParsedAnswers[r][info.contains]
  IN [file |-> info.file, summary |-> parsed.summary, purpose |-> parsed.purpose,
      functions |-> parsed.functions, key_details |-> parsed.key_details,
      language |-> Some(info.type), symbols |-> Some(info.contains)]

\* detailed_analysis[file_path] written by the except clause, which has no
\* language and no symbols key; exc is the text of the exception caught
failed_entry(info, exc) ==
  [file |-> info.file, summary |-> << <<"Analysis failed">> >>,
   purpose |-> << <<"Error:", exc>> >>, functions |-> << >>, key_details |-> << >>,
   language |-> None, symbols |-> None]

AnalyzeFileDone_Uncaught ==
  /\ pc = "analyze"
  /\ loc.step = "files"
  /\ CallOver
  /\ IF call.status = "returned"
     THEN /\ LET info == RepoData(state)[loc.i]
             IN loc' = [loc EXCEPT
                   !.i = @ + 1,
                   !.detailed = Append(@, analysis_entry(info, call.value))]
          /\ call' = EndCall(call)
          /\ UNCHANGED <<pc, error>>
     ELSE /\ Raise(call.exc)
          /\ UNCHANGED <<loc, call>>
  /\ UNCHANGED <<state, result>>
  /\ UNCHANGED <<response, history>>

\* the call of the loop body has ended: the entry of the file, which holds
\* the sections parsed from the answer, or the placeholder of the handler
AnalyzeFileDone ==
  /\ pc = "analyze"
  /\ loc.step = "files"
  /\ CallOver
  /\ LET info == RepoData(state)[loc.i]
     IN loc' = [loc EXCEPT
           !.i = @ + 1,
           !.detailed = Append(@, IF call.status = "returned"
                                  THEN analysis_entry(info, call.value)
                                  ELSE failed_entry(info, call.exc))]
  /\ call' = EndCall(call)
  /\ UNCHANGED <<state, pc, result, error>>
  /\ UNCHANGED <<response, history>>

\* state.project_analysis is stored and the function returns
AnalyzeStore ==
  /\ pc = "analyze"
  /\ loc.step = "files"
  /\ call.status = "idle"
  /\ loc.i > Len(RepoData(state))
  /\ state' = [state EXCEPT !.project_analysis =
        Some([detailed_analysis |-> loc.detailed,
              file_count |-> Len(loc.detailed),
              total_files |-> Len(RepoData(state))])]
  /\ pc' = next_stage("analyze")
  /\ loc' = LocInit
  /\ UNCHANGED <<call, result, error>>
  /\ UNCHANGED <<response, history>>

(***************************************************************************)
(* run_pipeline                                                            *)
(***************************************************************************)
\* the dict run_pipeline returns
Return ==
  /\ pc = "output"
  /\ result' = Some([readme |-> IF IsNone(state.readme) THEN "" ELSE Val(state.readme),
                     summaries |-> state.summaries,
                     visuals |-> state.visuals,
                     input_type |-> state.input_type,
                     project_analysis |-> state.project_analysis])
  /\ pc' = next_stage("output")
  /\ UNCHANGED <<state, call, loc, error>>
  /\ UNCHANGED <<response, history>>

Preferences ==
  { [generate_summary |-> TRUE, generate_readme |-> TRUE, visualize_structure |-> TRUE],
    [generate_summary |-> FALSE, generate_readme |-> TRUE, visualize_structure |-> TRUE],
    [generate_summary |-> TRUE, generate_readme |-> FALSE, visualize_structure |-> TRUE],
    [generate_summary |-> TRUE, generate_readme |-> TRUE, visualize_structure |-> FALSE],
    [generate_summary |-> FALSE, generate_readme |-> FALSE, visualize_structure |-> FALSE] }

EmptyMap == [x \in {} |-> << >>]

\* a DocGenState as its constructor leaves it
NewState(input_type, input_data, preferences) ==
  [input_type |-> input_type, input_data |-> input_data, preferences |-> preferences,
   files_content |-> None, current_file_path |-> None, parsed_data |-> None,
   summaries |-> EmptyMap, readme |-> None, visuals |-> None,
   readme_summaries |-> None, project_analysis |-> None]

Init ==
  /\ \E t \in InputTypes, d \in {StrInput} \cup {DictInput(r) : r \in Repos},
        p \in Preferences : state = NewState(t, d, p)
  /\ pc = "fetch"
  /\ call = NoCall
  /\ loc = LocInit
  /\ result = None
  /\ error = None
  /\ response = None
  /\ history = << >>

(***************************************************************************)
(* The /generate endpoint: generate_docs                                   *)
(***************************************************************************)
\* the states generate_docs constructs: input_data is form text and every
\* preference is on
FromEndpoint(st) ==
  /\ st.input_data.kind = "str"
  /\ st.preferences = [generate_summary |-> TRUE, generate_readme |-> TRUE,
                       visualize_structure |-> TRUE]

\* the exceptions that are instances of ValueError: pydantic's ValidationError
\* and binascii.Error are subclasses
ValueErrors == {"ValueError", "ValidationError", "binascii.Error"}

\* the except clause of generate_docs that takes the exception
exception_class(e) ==
  IF e \in ValueErrors THEN "ValueError"
  ELSE IF e \in HTTPErrors THEN "HTTPError"
  ELSE "Exception"

\* "rate limit" in error_message.lower()
HasRateLimitLower(msg) ==
  msg \in { "GitHub API rate limit exceeded",
            "403 Client Error: rate limit exceeded for url: repos/o/r404" }

\* "404" in error_message
Has404(msg) ==
  msg \in { "404 Client Error: Not Found for url: repos/o/r",
            "403 Client Error: rate limit exceeded for url: repos/o/r404" }

http_status_404First(e) ==
  IF exception_class(e) = "ValueError" THEN 400
  ELSE IF exception_class(e) = "HTTPError"
       THEN IF Has404(e) THEN 404
            ELSE IF HasRateLimitLower(e) THEN 429
            ELSE 502
  ELSE 500

\* the status code of the HTTPException raised for an exception of the try
http_status(e) ==
  IF exception_class(e) = "ValueError" THEN 400
  ELSE IF exception_class(e) = "HTTPError"
       THEN IF HasRateLimitLower(e) THEN 429
            ELSE IF Has404(e) THEN 404
            ELSE 502
  ELSE 500

\* the record save_documentation_record puts for a result
documentation_record(res) ==
  [repoUrl |-> IF res.input_type = "url" THEN "input_data" ELSE "zip_upload",
   readmeContent |-> res.readme,
   summaries |-> res.summaries,
   metadata |-> [visuals |-> res.visuals, input_type |-> res.input_type,
                 project_analysis |-> res.project_analysis]]

\* the form has no input_data: the constructor of DocGenState raises inside
\* the try of generate_docs, before run_pipeline
GenerateRejects ==
  /\ pc = "fetch"
  /\ FromEndpoint(state)
  /\ Raise("ValidationError")
  /\ UNCHANGED <<state, call, loc, result, response, history>>

\* generate_docs after run_pipeline: the HTTPException for what it raised,
\* or the save of the history record, which may fail, and the response
GenerateRespond ==
  /\ pc \in {"done", "raised"}
  /\ FromEndpoint(state)
  /\ IsNone(response)
  /\ IF pc = "raised"
     THEN /\ response' = Some([status_code |-> http_status(Val(error)), body |-> None])
          /\ UNCHANGED history
     ELSE /\ response' = Some([status_code |-> 200, body |-> result])
          /\ \E saved \in BOOLEAN :
               history' = IF saved THEN Append(history, documentation_record(Val(result)))
                          ELSE history
  /\ UNCHANGED <<state, pc, call, loc, result, error>>

Next ==
  \/ Fetch
  \/ GenerateRejects
  \/ GenerateRespond
  \/ Parse
  \/ SummarizeFile
  \/ SummarizeChunkDone
  \/ SummarizeReturn
  \/ ReadmeBegin
  \/ ReadmePartialDone
  \/ ReadmeFinalDone
  \/ VisualizeBegin
  \/ VisualizePhaseDone
  \/ VisualizeStore
  \/ AnalyzeBegin
  \/ AnalyzeFile
  \/ AnalyzeFileDone
  \/ AnalyzeStore
  \/ Return
  \/ LLMCall
  \/ LLMSleep

Spec == Init /\ [][Next]_vars

(***************************************************************************)
(* summarize_code_node invoked any number of times, for any path of the    *)
(* parse result and in any order, on the state that Parse leaves           *)
(***************************************************************************)
MaxInvocations == 3

InitSummarize ==
  /\ \E r \in Repos, p \in Preferences :
       /\ parse_code_from_memory(r) # << >>
       /\ state = [NewState("upload", DictInput(r), p) EXCEPT
                     !.files_content = Some(r),
                     !.parsed_data = Some(parse_code_from_memory(r))]
  /\ pc = "summarize"
  /\ call = NoCall
  /\ loc = LocInit
  /\ result = None
  /\ error = None
  /\ response = None
  /\ history = << >>

\* one more invocation, loc.i counting them
Resummarize ==
  /\ pc = "summarize"
  /\ call.status = "idle"
  /\ loc.i <= MaxInvocations
  /\ \E k \in 1..Len(RepoData(state)) : summarize_begin(RepoData(state)[k])
  /\ UNCHANGED <<pc, result, error>>
  /\ UNCHANGED <<response, history>>

NextSummarize ==
  \/ Resummarize
  \/ SummarizeChunkDone
  \/ LLMCall
  \/ LLMSleep

SpecSummarize == InitSummarize /\ [][NextSummarize]_vars

(***************************************************************************)
(* Properties                                                              *)
(***************************************************************************)
StageOrder == <<"fetch", "parse", "summarize", "readme", "visualize", "analyze",
                "output", "done">>
StageIdx(s) == CHOOSE i \in 1..Len(StageOrder) : StageOrder[i] = s

ReadmeSummaries(st) ==
  IF IsNone(st.readme_summaries) THEN << >> ELSE Val(st.readme_summaries)
EntriesOf(st, path) ==
  {k \in 1..Len(ReadmeSummaries(st)) : ReadmeSummaries(st)[k].file = path}
Errors(h) == Len(SelectSeq(h, LAMBDA x : x = "error"))

\* C1: in each of the four wrappers a 429 error is retried, and a unit of
\* work whose first two collaborator calls fail and whose third succeeds ends
\* after exactly those 3 calls and 2 sleeps, returning the third call's
\* answer, with no exception raised to the stage or out of the pipeline; a
\* wrapper raises within its first two calls only for an error it does not
\* retry
C1_TwoFailuresThenSuccess ==
  /\ \A w \in Wrappers : retries_on(w, "429 Too Many Requests")
  /\ call.hist = <<"error", "error", "ok">> =>
       /\ call.status = "returned"
       /\ call.attempt = 2
       /\ Len(call.delays) = 2
       /\ call.value \in Responses(call.w)
       /\ pc = call.w
       /\ error = None
  /\ (call.status = "raised" /\ Len(call.hist) <= 2) =>
       /\ call.exc \in LLMErrors
       /\ ~retries_on(call.w, call.exc)

C1_Witness ==
  /\ call.w = "readme"
  /\ call.hist = <<"error", "error", "ok">>
  /\ call.status = "returned"

\* C2: one unit of work makes at most 5 collaborator calls; the wrapper
\* raises either its retries-exhausted error, and then after exactly 5 failed
\* calls, or at once an error it does not retry; the k-th sleep of the unit
\* lasts base * 2^(k-1) plus jitter, base being 5 for README synthesis and 2
\* for Summarize, Analyze and Visualize
C2_BoundedRetriesDoublingDelay ==
  /\ Len(call.hist) <= 5
  /\ call.status = "raised" =>
       \/ /\ call.exc = exhausted(call.w)
          /\ call.hist = <<"error", "error", "error", "error", "error">>
       \/ /\ call.exc \in LLMErrors
          /\ ~retries_on(call.w, call.exc)
  /\ Len(call.delays) <= Errors(call.hist)
  /\ \A k \in 1..Len(call.delays) :
       call.delays[k] = (IF call.w = "readme" THEN 5 ELSE 2) * Pow2(k - 1)

C2_Witness ==
  /\ call.w = "readme"
  /\ call.status = "raised"
  /\ call.delays = <<5, 10, 20, 40, 80>>

\* C3: in every LLM-calling stage an error that is not a rate-limit or
\* transient error is raised by the wrapper when it first occurs: the wrapper
\* never sleeps on it
C3_NonRetryablePropagates ==
  (call.exc = "401 invalid api key" /\ call.status # "idle") => call.status = "raised"

\* C4: when a call of the README stage, partial or final, has raised out of
\* its wrapper, the pipeline's next step is to abort with that error
C4_ReadmeFailureAborts ==
  [][(pc = "readme" /\ call.status = "raised") => pc' = "raised"]_vars

\* C5: the pipeline never aborts in the Summarize stage; after a chunk's call
\* has raised, the stage goes on with the next chunk of the file, or, after
\* the last chunk, stores the file's entry in summaries and readme_summaries
\* (the placeholder when the combined text is empty) and goes on to the next
\* file; once the stage is over every file that Summarize does not skip has
\* both entries
C5_ChunkFailureIsolated ==
  /\ [](pc = "raised" => call.w # "summarize")
  /\ [][(pc = "summarize" /\ call.status = "raised") =>
          /\ pc' = "summarize"
          /\ error' = None
          /\ IF loc.c < Len(loc.chunks)
             THEN /\ call'.status = "trying"
                  /\ loc'.c = loc.c + 1
                  /\ loc'.i = loc.i
             ELSE LET path == Val(state.current_file_path)
                  IN /\ path \in DOMAIN state'.summaries
                     /\ \E k \in EntriesOf(state', path) :
                          state'.summaries[path] = << >> =>
                            ReadmeSummaries(state')[k].summary = NoSummaryAvailable
                     /\ loc'.i = loc.i + 1]_vars
  /\ []((pc \notin {"fetch", "parse", "summarize"} /\ state.preferences.generate_summary) =>
          \A k \in 1..Len(RepoData(state)) :
            RepoData(state)[k].code.chars > 0 =>
              /\ RepoData(state)[k].file \in DOMAIN state.summaries
              /\ EntriesOf(state, RepoData(state)[k].file) # {})

\* the only call of the first file has raised and the second file is next
C5_Witness ==
  /\ pc = "summarize"
  /\ call.status = "idle"
  /\ call.exc = exhausted("summarize")
  /\ loc.i = 2
  /\ RepoData(state)[1].file \in DOMAIN state.summaries
  /\ state.summaries[RepoData(state)[1].file] = << >>
  /\ Len(RepoData(state)) > 1

\* C6: readme_summaries never holds two entries of one path, every path of
\* summaries has its entry, and a summary is never longer than what one
\* invocation can produce (a line per chunk); an invocation that stores sets
\* summaries[path] and the entry of path to the text of its own chunks'
\* answers and leaves every other path's summary and entry as they were
C6_LastWriteWins ==
  /\ [](/\ \A p \in DOMAIN state.summaries : Cardinality(EntriesOf(state, p)) = 1
        /\ \A k \in 1..Len(ReadmeSummaries(state)) :
             /\ Cardinality(EntriesOf(state, ReadmeSummaries(state)[k].file)) = 1
             /\ ReadmeSummaries(state)[k].file \in DOMAIN state.summaries
        /\ \A k \in 1..Len(RepoData(state)) :
             LET e == RepoData(state)[k]
             IN e.file \in DOMAIN state.summaries =>
                  Len(state.summaries[e.file]) <=
                    Len(split_code_into_chunks(e.code.lines, CHUNK_SIZE, CHUNK_OVERLAP)))
  /\ [][(state'.summaries # state.summaries
            \/ state'.readme_summaries # state.readme_summaries) =>
          LET path == Val(state.current_file_path)
              text == combined_summary(
                        IF call.status = "returned"
                        THEN loc.acc \o parse_llm_summary_response(call.value)
                        ELSE loc.acc)
          IN /\ DOMAIN state'.summaries = DOMAIN state.summaries \cup {path}
             /\ state'.summaries[path] = text
             /\ \A k \in EntriesOf(state', path) :
                  ReadmeSummaries(state')[k].summary =
                    IF text = << >> THEN NoSummaryAvailable ELSE text
             /\ \A q \in DOMAIN state.summaries \ {path} :
                  state'.summaries[q] = state.summaries[q]
             /\ SelectSeq(ReadmeSummaries(state'), LAMBDA e : e.file # path)
                  = SelectSeq(ReadmeSummaries(state), LAMBDA e : e.file # path)]_vars

\* a path summarized a second time, with a different text
C6_Witness ==
  /\ loc.i = 3
  /\ call.status = "idle"
  /\ state.preferences.generate_summary
  /\ Len(RepoData(state)) = 2
  /\ \A k \in 1..2 : RepoData(state)[k].code.chars > 0
  /\ Len(ReadmeSummaries(state)) = 1
  /\ state.summaries[ReadmeSummaries(state)[1].file] = <<"L">>

\* C7: the stages start in the order Fetch, Parse, Summarize, README,
\* Visualize, Analyze, each only when the one before it has returned; an LLM
\* call is in progress only inside the stage of its wrapper, and each stage's
\* calls come after the calls of the stages before it
C7_StagesInOrder ==
  /\ []((CallActive \/ CallOver) => pc = call.w)
  /\ [](call.w # "none" => (pc = "raised" \/ StageIdx(call.w) <= StageIdx(pc)))
  /\ [][pc' # pc =>
          /\ ~CallActive
          /\ pc' = "raised" \/ StageIdx(pc') = StageIdx(pc) + 1]_vars
  /\ [][call'.w # call.w =>
          call.w = "none" \/ StageIdx(call.w) < StageIdx(call'.w)]_vars

C7_Witness ==
  /\ pc = "done"
  /\ call.w = "analyze"
  /\ state.readme = Some("markdown")
  /\ ~IsNone(state.visuals)
  /\ \E p \in DOMAIN state.summaries : state.summaries[p] # << >>

\* C8: with an input_type outside github, repo, url, zip, upload the
\* pipeline ends in fetch_code's ValueError: files_content is not set, no
\* later stage has written anything, no LLM call was made, nothing is returned
\* (a run that /generate rejected before run_pipeline is not a pipeline run)
C8_UnsupportedInputType ==
  (state.input_type \notin {"github", "repo", "url", "zip", "upload"}
     /\ pc # "fetch" /\ error # Some("ValidationError")) =>
     /\ pc = "raised"
     /\ error = Some("ValueError")
     /\ IsNone(state.files_content)
     /\ IsNone(state.parsed_data)
     /\ state.summaries = EmptyMap
     /\ IsNone(state.readme_summaries)
     /\ IsNone(state.readme)
     /\ IsNone(state.visuals)
     /\ IsNone(state.project_analysis)
     /\ call = NoCall
     /\ result = None

C8_Witness ==
  /\ state.input_type = "gitlab"
  /\ pc = "raised"
  /\ error = Some("ValueError")

\* C9: when Fetch has left files_content absent or empty, the pipeline ends
\* in an error, the RuntimeError of run_pipeline when Fetch itself returned,
\* with parsed_data, summaries, readme, visuals and project_analysis unwritten
\* and no LLM call made
C9_MissingContentIsFatal ==
  ((IsNone(state.files_content) \/ Val(state.files_content) = << >>)
      /\ pc \notin {"fetch", "parse"}) =>
     /\ pc = "raised"
     /\ ~IsNone(state.files_content) => error = Some("RuntimeError")
     /\ IsNone(state.parsed_data)
     /\ state.summaries = EmptyMap
     /\ IsNone(state.readme_summaries)
     /\ IsNone(state.readme)
     /\ IsNone(state.visuals)
     /\ IsNone(state.project_analysis)
     /\ call = NoCall
     /\ result = None

C9_Witness ==
  /\ state.files_content = Some(<< >>)
  /\ error = Some("RuntimeError")

\* C10: with preferences.visualize_structure false the Visualize stage makes
\* no LLM call and visuals stays unset
C10_VisualizeHonoursPreference ==
  ~state.preferences.visualize_structure =>
     /\ call.w # "visualize"
     /\ IsNone(state.visuals)

(***************************************************************************)
(* Optional stages                                                         *)
(***************************************************************************)
\* what a caller can say about the Analyze stage.  run_pipeline takes the
\* DocGenState alone, and neither DocGenState nor DocGenPreferences has a
\* field that asks for the analysis or declines it: no caller requests it
analyze_requested(st) == FALSE

\* C11: the Analyze stage runs, and calls the LLM, only when the caller
\* requested it; without a request no analysis call is made and
\* project_analysis stays unset to the end of the pipeline
C11_AnalyzeOnlyOnRequest ==
  ~analyze_requested(state) =>
     /\ call.w # "analyze"
     /\ IsNone(state.project_analysis)

\* C12: with preferences.generate_summary false the Summarize stage makes no
\* LLM call and leaves summaries and readme_summaries as they were, for every
\* file; with preferences.generate_readme false the Synthesize README stage
\* makes no LLM call and leaves readme as it was
C12_DisabledStagesDoNothing ==
  /\ ~state.preferences.generate_summary =>
       /\ call.w # "summarize"
       /\ state.summaries = EmptyMap
       /\ IsNone(state.readme_summaries)
  /\ ~state.preferences.generate_readme =>
       /\ call.w # "readme"
       /\ IsNone(state.readme)

\* both stages were passed with their flags off, on a repository with a
\* parsed file that has code to summarize
C12_Witness ==
  /\ pc = "done"
  /\ ~state.preferences.generate_summary
  /\ ~state.preferences.generate_readme
  /\ \E k \in 1..Len(RepoData(state)) : RepoData(state)[k].code.chars > 0
  /\ IsNone(state.readme)
  /\ state.summaries = EmptyMap

\* C13: in the Visualize stage, when any one of the three phases
\* (explanation, component mapping, diagram rendering) has failed, the
\* diagram stored under visuals['folder_structure_mermaid'] is the fixed
\* fallback diagram and not text the LLM produced
C13_AnyPhaseFailureGivesFallback ==
  [][ ( /\ pc = "visualize"
        /\ loc.step = "phase3"
        /\ CallOver
        /\ \/ loc.p1 = "fallback"
           \/ loc.p2 = "fallback"
           \/ call.status = "raised"
        /\ ~IsNone(state'.visuals) )
      => Val(state'.visuals).folder_structure_mermaid = "fallback diagram" ]_vars

(***************************************************************************)
(* Analyze                                                                 *)
(***************************************************************************)
\* the keys of detailed_analysis, in insertion order
AnalyzedFiles(pa) == [k \in 1..Len(pa.detailed_analysis) |-> pa.detailed_analysis[k].file]

\* the files of parsed_data the loop of analyze_project_structure does not skip
EligibleFiles(st) ==
  LET el == SelectSeq(RepoData(st), analyze_eligible)
  IN [k \in 1..Len(el) |-> el[k].file]

\* C14: when the LLM call for one eligible file of the Analyze stage fails
\* after all retries, the failure is caught in that loop iteration: the file
\* gets the placeholder entry 'Analysis failed', every later file is still
\* analyzed, the stage does not raise, and project_analysis is written with
\* file_count equal to the number of keys of detailed_analysis
C14_AnalyzeFailureIsolated ==
  /\ [][ /\ pc = "analyze" => pc' # "raised"
         /\ (pc = "analyze" /\ loc.step = "files" /\ call.status = "raised")
              => /\ loc'.i = loc.i + 1
                 /\ Len(loc'.detailed) = Len(loc.detailed) + 1
                 /\ SubSeq(loc'.detailed, 1, Len(loc.detailed)) = loc.detailed
                 /\ Last(loc'.detailed).file = RepoData(state)[loc.i].file
                 /\ Last(loc'.detailed).summary = << <<"Analysis failed">> >>
                 /\ state' = state ]_vars
  /\ [](~IsNone(state.project_analysis) =>
          LET pa == Val(state.project_analysis)
          IN /\ AnalyzedFiles(pa) = EligibleFiles(state)
             /\ pa.file_count = Cardinality({pa.detailed_analysis[k].file :
                                               k \in 1..Len(pa.detailed_analysis)}))
  /\ []((pc = "done" /\ ~NoParsedData(state)) => ~IsNone(state.project_analysis))

\* the pipeline has ended, the first analyzed file holds the placeholder
\* and a later file holds the analysis the LLM gave
C14_Witness ==
  /\ pc = "done"
  /\ ~IsNone(state.project_analysis)
  /\ LET d == Val(state.project_analysis).detailed_analysis
     IN /\ Len(d) >= 2
        /\ d[1].summary = << <<"Analysis failed">> >>
        /\ d[2].summary # << <<"Analysis failed">> >>
        /\ Val(state.project_analysis).file_count = 2

\* the conditions under which the Analyze stage may analyze a parsed file
MayBeAnalyzed(info) ==
  /\ info.type \notin {"css", "scss", "sass", "less", "html", "json", "yaml", "yml"}
  /\ info.code.chars >= 50
  /\ Len(info.contains) >= 1
  /\ \A pat \in skip_patterns : ~pattern_in(pat, lower(Last(info.file)))

InfoOf(st, path) ==
  LET hits == SelectSeq(RepoData(st), LAMBDA e : e.file = path) IN hits[1]

\* C15: a parsed file is a key of project_analysis['detailed_analysis'], and
\* gets an LLM call, only if it is eligible: its language is not a non-code
\* one, its stripped code has at least 50 characters, it has at least one
\* extracted symbol and no blocklist pattern occurs in its lowercased name;
\* a file without extracted symbols is never a key and never gets a call
C15_OnlyEligibleFilesAnalyzed ==
  /\ (pc = "analyze" /\ call.w = "analyze" /\ call.status # "idle")
       => MayBeAnalyzed(RepoData(state)[loc.i])
  /\ pc = "analyze" =>
       \A k \in 1..Len(loc.detailed) : MayBeAnalyzed(InfoOf(state, loc.detailed[k].file))
  /\ ~IsNone(state.project_analysis) =>
       LET d == Val(state.project_analysis).detailed_analysis
       IN \A k \in 1..Len(d) :
            /\ \E j \in 1..Len(RepoData(state)) : RepoData(state)[j].file = d[k].file
            /\ MayBeAnalyzed(InfoOf(state, d[k].file))
            /\ InfoOf(state, d[k].file).contains # << >>

\* the analysis was stored for a repository with a file that is a key and
\* three that are not: a stylesheet, a 200-character script without symbols
\* and a bundle with a symbol whose lowercased name holds '.bundle.js'
C15_Witness ==
  /\ ~IsNone(state.project_analysis)
  /\ LET pa == Val(state.project_analysis)
     IN /\ pa.total_files = 4
        /\ pa.file_count = 1
        /\ AnalyzedFiles(pa) = << F_main.path >>
        /\ \E j \in 1..Len(RepoData(state)) :
              /\ RepoData(state)[j].file = F_script.path
              /\ RepoData(state)[j].contains = << >>
              /\ RepoData(state)[j].code.chars >= 50
        /\ \E j \in 1..Len(RepoData(state)) :
              /\ RepoData(state)[j].file = F_bundle.path
              /\ RepoData(state)[j].contains # << >>

(***************************************************************************)
(* The Walker                                                              *)
(***************************************************************************)
\* the keys of a ParseResult, in insertion order
Keys(structure) == [k \in 1..Len(structure) |-> structure[k].key]

\* the name ends with ".min.js"
IsMinifiedBundle(path) ==
  /\ Len(Last(path)) >= 3
  /\ SubSeq(Last(path), Len(Last(path)) - 1, Len(Last(path))) = <<"min", "js">>

\* the file lies in a folder of EXCLUDED_FOLDERS
UnderExcludedFolder(path) == \E k \in 1..(Len(path) - 1) : path[k] \in EXCLUDED_FOLDERS

\* C16: parse_code_from_memory on the map {"a.py", "a.min.js",
\* "node_modules/x.js"} returns a ParseResult whose only key is "a.py"; in
\* general no minified bundle (*.min.js) and no file under an excluded
\* folder is a key of the ParseResult
C16_WalkerSkipsBundlesAndExcludedFolders ==
  ~IsNone(state.parsed_data) =>
     /\ Val(state.files_content) = << F_a, F_minjs, F_nm >>
          => Keys(RepoData(state)) = << F_a.path >>
     /\ \A k \in 1..Len(RepoData(state)) :
          /\ ~IsMinifiedBundle(RepoData(state)[k].key)
          /\ ~UnderExcludedFolder(RepoData(state)[k].key)

(***************************************************************************)
(* The Walker on its own, in its two modes: parse_code_memory over the     *)
(* map files_content, and parse_code / walk_folder over the tree under     *)
(* working_dir.  The files are drawn from WalkDirs x WalkNames.            *)
(***************************************************************************)
MaxWalkFiles == 2

WalkDirs ==
  { << >>,
    << <<"src">>, <<"app">> >>,
    << <<"node_modules">>, <<"foo">> >>,
    << <<"pkg">>, <<"lib">> >> }

WalkNames ==
  { <<"index", "js">>, <<"package-lock", "json">>, <<"main", "go">>, <<"notes", "txt">>,
    <<"util", "h">>, <<"webpack", "config", "js">>, <<"README", "md">>, <<"build">> }

WalkFiles ==
  { File(d \o << n >>, ok, 3, 80, <<"f">>) : d \in WalkDirs, n \in WalkNames, ok \in BOOLEAN }

\* os.walk is top-down: the files of a directory come before the files of
\* the directories below it
TopDown(files) ==
  \A i, j \in 1..Len(files) :
    (i < j) => ~( /\ Len(files[j].path) < Len(files[i].path)
                  /\ SubSeq(files[i].path, 1, Len(files[j].path) - 1)
                       = SubSeq(files[j].path, 1, Len(files[j].path) - 1) )

WalkInputs ==
  UNION { { fs \in [1..n -> WalkFiles] :
              \A i, j \in 1..n : (i # j) => fs[i].path # fs[j].path } : n \in 0..MaxWalkFiles }

VENV_MARKERS == { <<"bin">>, <<"lib">>, <<"pyvenv", "cfg">>, <<"Scripts">>, <<"Include">> }

\* os.listdir(folder_path) meets VENV_MARKERS
is_virtual_env(folder_path, files) ==
  \E j \in 1..Len(files) :
    /\ Len(files[j].path) > Len(folder_path)
    /\ SubSeq(files[j].path, 1, Len(folder_path)) = folder_path
    /\ files[j].path[Len(folder_path) + 1] \in VENV_MARKERS

\* a directory on the way to the file was taken out of dirs[:]
walk_pruned(path, files) ==
  \E k \in 1..(Len(path) - 1) :
    \/ path[k] \in EXCLUDED_FOLDERS
    \/ is_virtual_env(SubSeq(path, 1, k), files)

\* walk_folder gets as far as opening the file
walk_opens(f, files) ==
  /\ ~walk_pruned(f.path, files)
  /\ Last(f.path) \notin EXCLUDED_FILES
  /\ ~IsNone(detect_language(<< Last(f.path) >>))

\* the entry walk_folder stores for a file it has read and extracted
walk_entry(f) ==
  [key |-> f.path,
   file |-> f.path,
   code |-> [lines |-> f.lines, chars |-> f.chars],
   type |-> Val(detect_language(<< Last(f.path) >>)),
   contains |-> f.symbols]

WalkState(mode, files) ==
  [mode |-> mode,
   files_content |-> IF mode = "memory" THEN Some(files) ELSE None,
   working_dir |-> IF mode = "disk" THEN Some(files) ELSE None,
   parsed_data |-> None]

WalkLocInit == [i |-> 1, structure |-> << >>, verdicts |-> << >>]

InitWalker ==
  /\ \E files \in WalkInputs :
       \/ state = WalkState("memory", files) /\ pc = "parse_code_memory"
       \/ TopDown(files) /\ state = WalkState("disk", files) /\ pc = "parse_code"
  /\ call = NoCall
  /\ loc = WalkLocInit
  /\ result = None
  /\ error = None
  /\ response = None
  /\ history = << >>

\* one iteration of the loop of parse_code_from_memory; what the Exclusion
\* Filter and the Classifier answered is kept in loc.verdicts
WalkMemoryFile ==
  /\ pc = "parse_code_memory"
  /\ loc.i <= Len(Val(state.files_content))
  /\ LET f == Val(state.files_content)[loc.i]
     IN loc' = [i |-> loc.i + 1,
                structure |-> loc.structure \o parse_one(f),
                verdicts |-> Append(loc.verdicts,
                   [path |-> f.path,
                    excluded |-> should_exclude_file(f.path),
                    lang |-> IF should_exclude_file(f.path) THEN "not asked"
                             ELSE IF IsNone(detect_language(f.path)) THEN "None"
                             ELSE Val(detect_language(f.path))])]
  /\ UNCHANGED <<state, pc, call, result, error>>
  /\ UNCHANGED <<response, history>>

\* parse_code_memory: the check of files_content, and the store
WalkMemoryReturn ==
  /\ pc = "parse_code_memory"
  /\ loc.i > Len(Val(state.files_content))
  /\ IF Val(state.files_content) = << >>
     THEN /\ Raise("RuntimeError")
          /\ UNCHANGED state
     ELSE /\ state' = [state EXCEPT !.parsed_data = Some(loc.structure)]
          /\ pc' = "parsed"
          /\ UNCHANGED error
  /\ UNCHANGED <<call, loc, result>>
  /\ UNCHANGED <<response, history>>

\* one file of walk_folder: reading is guarded, extracting is not
WalkFolderFile ==
  /\ pc = "parse_code"
  /\ loc.i <= Len(Val(state.working_dir))
  /\ LET files == Val(state.working_dir)
         f == files[loc.i]
     IN IF ~walk_opens(f, files)
        THEN /\ loc' = [loc EXCEPT !.i = @ + 1]
             /\ UNCHANGED <<pc, error>>
        ELSE \E readable \in BOOLEAN :
               IF ~readable
               THEN /\ loc' = [loc EXCEPT !.i = @ + 1]
                    /\ UNCHANGED <<pc, error>>
               ELSE IF ~f.parses
               THEN /\ Raise("extractor error")
                    /\ UNCHANGED loc
               ELSE /\ loc' = [loc EXCEPT !.i = @ + 1,
                                          !.structure = Append(@, walk_entry(f))]
                    /\ UNCHANGED <<pc, error>>
  /\ UNCHANGED <<state, call, result>>
  /\ UNCHANGED <<response, history>>

\* walk_folder returns and parse_code stores
WalkFolderReturn ==
  /\ pc = "parse_code"
  /\ loc.i > Len(Val(state.working_dir))
  /\ state' = [state EXCEPT !.parsed_data = Some(loc.structure)]
  /\ pc' = "parsed"
  /\ UNCHANGED <<call, loc, result, error>>
  /\ UNCHANGED <<response, history>>

NextWalker ==
  \/ WalkMemoryFile
  \/ WalkMemoryReturn
  \/ WalkFolderFile
  \/ WalkFolderReturn

SpecWalker == InitWalker /\ [][NextWalker]_vars

\* README.md and the lock and config files among the drawn names
DocAndConfigNames ==
  { <<"README", "md">>, <<"package-lock", "json">>, <<"webpack", "config", "js">> }

\* C17: after the Parse stage every key of parsed_data['repo_path'] is a
\* path of files_content that should_exclude_file does not exclude and for
\* which detect_language returns a language; keys are unique, each record's
\* 'file' is its key and its 'type' is detect_language of that path;
\* README.md and lock/config files are never keys
C17_ParsedKeysPassedFilterAndClassifier ==
  (pc = "parsed" /\ state.mode = "memory") =>
     LET repo == RepoData(state)
     IN /\ \A k \in 1..Len(repo) :
             /\ \E j \in 1..Len(Val(state.files_content)) :
                   Val(state.files_content)[j].path = repo[k].key
             /\ ~should_exclude_file(repo[k].key)
             /\ ~IsNone(detect_language(repo[k].key))
             /\ repo[k].file = repo[k].key
             /\ repo[k].type = Val(detect_language(repo[k].key))
             /\ Last(repo[k].key) \notin DocAndConfigNames
        /\ \A k, j \in 1..Len(repo) : (repo[k].key = repo[j].key) => k = j

\* a map with a config file at the top and a Go file in a folder was
\* parsed: the Go file alone is a key
C17_Witness ==
  /\ pc = "parsed"
  /\ state.mode = "memory"
  /\ \E j \in 1..Len(Val(state.files_content)) :
        Val(state.files_content)[j].path = << <<"webpack", "config", "js">> >>
  /\ Keys(RepoData(state)) = << << <<"src">>, <<"app">>, <<"main", "go">> >> >>
  /\ RepoData(state)[1].type = "go"

\* the base name is in EXCLUDED_FILES, or one '/'-separated segment of the
\* path, scanned from segment k on, is in EXCLUDED_FOLDERS
RECURSIVE SegmentExcludedFrom(_, _)
SegmentExcludedFrom(path, k) ==
  IF k > Len(path) THEN FALSE
  ELSE IF path[k] \in EXCLUDED_FOLDERS THEN TRUE
  ELSE SegmentExcludedFrom(path, k + 1)

\* C18: should_exclude_file(path) is true exactly when the base file name is
\* in EXCLUDED_FILES or some '/'-separated segment of the path is in
\* EXCLUDED_FOLDERS: true for "node_modules/foo/index.js", false for
\* "src/app/index.js", true for "package-lock.json" under every directory
C18_ExclusionFilter ==
  \A k \in 1..Len(loc.verdicts) :
    LET v == loc.verdicts[k]
    IN /\ v.excluded <=> (Last(v.path) \in EXCLUDED_FILES \/ SegmentExcludedFrom(v.path, 1))
       /\ v.path = << <<"node_modules">>, <<"foo">>, <<"index", "js">> >> => v.excluded
       /\ v.path = << <<"src">>, <<"app">>, <<"index", "js">> >> => ~v.excluded
       /\ Last(v.path) = <<"package-lock", "json">> => v.excluded

\* the filter has answered for "src/app/package-lock.json" and for
\* "src/app/index.js", the one excluded and the other not
C18_Witness ==
  /\ pc = "parse_code_memory"
  /\ Len(loc.verdicts) = 2
  /\ loc.verdicts[1].path = << <<"src">>, <<"app">>, <<"package-lock", "json">> >>
  /\ loc.verdicts[1].excluded
  /\ loc.verdicts[2].path = << <<"src">>, <<"app">>, <<"index", "js">> >>
  /\ ~loc.verdicts[2].excluded

\* the first language of the table, from entry k on, one of whose
\* extensions the name ends with
RECURSIVE FirstLanguageFrom(_, _)
FirstLanguageFrom(path, k) ==
  IF k > Len(LANGUAGE_EXTENSIONS) THEN "None"
  ELSE IF \E ext \in LANGUAGE_EXTENSIONS[k][2] : EndsWithExt(path, ext)
       THEN LANGUAGE_EXTENSIONS[k][1]
       ELSE FirstLanguageFrom(path, k + 1)

\* C19: detect_language is total on file names and returns the first
\* language, in table order, one of whose extensions is a suffix of the
\* name, or None when none matches: "main.go" gives go, "notes.txt" gives
\* None, and a name ending in ".h" gives c, never cpp
C19_ClassifierFirstMatch ==
  \A k \in 1..Len(loc.verdicts) :
    LET v == loc.verdicts[k]
    IN v.lang # "not asked" =>
         /\ v.lang = FirstLanguageFrom(v.path, 1)
         /\ Last(v.path) = <<"main", "go">> => v.lang = "go"
         /\ Last(v.path) = <<"notes", "txt">> => v.lang = "None"
         /\ EndsWithExt(v.path, "h") => v.lang = "c"

\* the classifier has answered for a header and for a text file
C19_Witness ==
  /\ pc = "parse_code_memory"
  /\ Len(loc.verdicts) = 2
  /\ loc.verdicts[1].path = << <<"src">>, <<"app">>, <<"util", "h">> >>
  /\ loc.verdicts[1].lang = "c"
  /\ loc.verdicts[2].path = << <<"notes", "txt">> >>
  /\ loc.verdicts[2].lang = "None"

\* C20: in both Walker modes (walk_folder on disk, parse_code_from_memory in
\* memory) an exception the Extractor raises for one file does not abort
\* the walk: that file is absent from the ParseResult and every other
\* eligible file is present
C20_ExtractorFailureIsolated ==
  /\ error # Some("extractor error")
  /\ (pc = "parsed" /\ state.mode = "disk") =>
        \A j \in 1..Len(Val(state.working_dir)) :
          LET f == Val(state.working_dir)[j]
          IN /\ ~f.parses => \A k \in 1..Len(RepoData(state)) : RepoData(state)[k].key # f.path
  /\ (pc = "parsed" /\ state.mode = "memory") =>
        \A j \in 1..Len(Val(state.files_content)) :
          LET f == Val(state.files_content)[j]
          IN IF f.parses /\ ~should_exclude_file(f.path) /\ ~IsNone(detect_language(f.path))
             THEN \E k \in 1..Len(RepoData(state)) : RepoData(state)[k].key = f.path
             ELSE \A k \in 1..Len(RepoData(state)) : RepoData(state)[k].key # f.path

(***************************************************************************)
(* Ownership of the fields of the state                                    *)
(***************************************************************************)
\* C21: every output field has one writing stage: parsed_data is written
\* only by Parse, summaries and readme_summaries only by Summarize, readme
\* only by README synthesis, visuals only by Visualize, project_analysis
\* only by Analyze; input_type and input_data are written by no stage
C21_SingleWriterPerField ==
  [][ /\ pc # "parse" => state'.parsed_data = state.parsed_data
      /\ pc # "summarize" => /\ state'.summaries = state.summaries
                             /\ state'.readme_summaries = state.readme_summaries
      /\ pc # "readme" => state'.readme = state.readme
      /\ pc # "visualize" => state'.visuals = state.visuals
      /\ pc # "analyze" => state'.project_analysis = state.project_analysis
      /\ state'.input_type = state.input_type
      /\ state'.input_data = state.input_data ]_vars

\* a run in which each of the five stages wrote its field has ended
C21_Witness ==
  /\ pc = "done"
  /\ ~NoParsedData(state)
  /\ DOMAIN state.summaries # {}
  /\ ~IsNone(state.readme_summaries)
  /\ ~IsNone(state.readme) /\ Val(state.readme) # ""
  /\ ~IsNone(state.visuals)
  /\ ~IsNone(state.project_analysis)
  /\ Val(state.project_analysis).file_count >= 1

(***************************************************************************)
(* The /generate endpoint                                                  *)
(***************************************************************************)
\* C22: /generate maps every pipeline failure to one HTTP error and saves no
\* history record for a failed run: ValueError gives 400; an HTTPError whose
\* message contains 'rate limit' gives 429, otherwise one containing '404'
\* gives 404, otherwise 502; any other exception gives 500.  On success a
\* failure to save the history record does not change the response
C22_FailuresMapToOneHttpError ==
  /\ pc = "raised" => history = << >>
  /\ (pc = "raised" /\ ~IsNone(response)) =>
       LET e == Val(error)
           code == Val(response).status_code
       IN /\ e \in {"ValueError", "ValidationError", "binascii.Error"} => code = 400
          /\ e \in {"GitHub API rate limit exceeded",
                    "403 Client Error: rate limit exceeded for url: repos/o/r404"} => code = 429
          /\ e = "404 Client Error: Not Found for url: repos/o/r" => code = 404
          /\ e = "500 Server Error for url: repos/o/r" => code = 502
          /\ e \in {"RuntimeError", "BadZipFile", "AttributeError", "TypeError",
                    "401 invalid api key", "rate limit exceeded",
                    "Exception: Max retries exceeded for LLM call"} => code = 500
          /\ code \in {400, 404, 429, 500, 502}
          /\ IsNone(Val(response).body)
  /\ (pc = "done" /\ ~IsNone(response)) =>
       /\ Val(response).status_code = 200
       /\ Val(response).body = result
       /\ Len(history) <= 1

\* the download failed with an HTTPError whose message holds both
\* 'rate limit' and '404', and the endpoint has answered 429
C22_Witness ==
  /\ pc = "raised"
  /\ error = Some("403 Client Error: rate limit exceeded for url: repos/o/r404")
  /\ ~IsNone(response)
  /\ Val(response).status_code = 429
  /\ history = << >>

(***************************************************************************)
(* Backoff                                                                 *)
(***************************************************************************)
\* C23: backoff sleeps happen only between two attempts: after the 5th
\* failed attempt a safe_llm_call raises without sleeping, so exhaustion
\* makes exactly 4 sleeps and every sleep is followed by another call
C23_SleepsOnlyBetweenAttempts ==
  /\ (call.status = "raised" /\ Errors(call.hist) = 5) => Len(call.delays) = 4
  /\ call.status # "idle" => Len(call.delays) < Len(call.hist) \/ call.status = "trying"

(***************************************************************************)
(* The Syntax-Tree Extractor: extract_names_and_clean.  Its input is the   *)
(* source (bytes named by their offsets), the byte ranges of the nodes     *)
(* whose type holds "comment" in the order collect_comments meets them,    *)
(* and the tree the parser makes of the cleaned code.                      *)
(***************************************************************************)
SourceLen == 6
MaxComments == 2
MaxNodes == 4

Source == [k \in 1..SourceLen |-> k - 1]

\* (start_byte, end_byte) of a node
ByteRanges == { r \in (0..SourceLen) \X (0..SourceLen) : r[1] < r[2] }

Inside(r, q) == q[1] <= r[1] /\ r[2] <= q[2]
Disjoint(r, q) == r[2] <= q[1] \/ q[2] <= r[1]

\* the ranges of nodes of one tree are nested or disjoint; collect_comments
\* is pre-order, so a node comes before its descendants and its later siblings
CollectedRanges ==
  UNION { { rs \in [1..n -> ByteRanges] :
              \A i, j \in 1..n : (i < j) =>
                 \/ Inside(rs[j], rs[i])
                 \/ (Disjoint(rs[i], rs[j]) /\ rs[i][2] <= rs[j][1]) } : n \in 0..MaxComments }

\* tuple order of Python
TupleLess(r, q) == r[1] < q[1] \/ (r[1] = q[1] /\ r[2] < q[2])

\* sorted(comment_ranges, reverse=True)
RECURSIVE sorted_reverse(_)
sorted_reverse(rs) ==
  IF rs = << >> THEN << >>
  ELSE LET m == CHOOSE i \in 1..Len(rs) :
                  /\ \A j \in 1..Len(rs) : ~TupleLess(rs[i], rs[j])
                  /\ \A j \in 1..(i - 1) : rs[j] # rs[i]
           rest == [k \in 1..(Len(rs) - 1) |-> IF k < m THEN rs[k] ELSE rs[k + 1]]
       IN << rs[m] >> \o sorted_reverse(rest)

\* del code_bytes[start:end], with the clamping of slices
delete_range(code_bytes, r) ==
  LET s == Min(r[1], Len(code_bytes))
      e == Min(r[2], Len(code_bytes))
  IN IF s >= e THEN code_bytes
     ELSE SubSeq(code_bytes, 1, s) \o SubSeq(code_bytes, e + 1, Len(code_bytes))

\* the syntax trees: node 1 is the root, parent[i] < i, the children of a
\* node are in the order of their numbers
NodeKinds == {"declaration f", "declaration g", "declaration without name", "other"}

Trees ==
  UNION { { [n |-> n, parent |-> par, kind |-> kd] :
              par \in { q \in [1..n -> 0..(n - 1)] : q[1] = 0 /\ \A i \in 2..n : q[i] >= 1 /\ q[i] < i },
              kd \in [1..n -> NodeKinds] } : n \in 1..MaxNodes }

OneNodeTree == [n |-> 1, parent |-> <<0>>, kind |-> <<"other">>]

Children(tree, v) == { c \in 1..tree.n : tree.parent[c] = v }

\* TreeCursor.goto_first_child, goto_next_sibling, goto_parent: the node the
\* cursor moves to, or 0 when it does not move
goto_first_child(tree, v) ==
  IF Children(tree, v) = {} THEN 0
  ELSE CHOOSE c \in Children(tree, v) : \A d \in Children(tree, v) : c <= d

goto_next_sibling(tree, v) ==
  LET later == { c \in Children(tree, tree.parent[v]) : c > v }
  IN IF tree.parent[v] = 0 \/ later = {} THEN 0
     ELSE CHOOSE c \in later : \A d \in later : c <= d

goto_parent(tree, v) == tree.parent[v]

\* the last loop of the walk: `while not goto_next_sibling(): if not
\* goto_parent(): break`, from node v; the node the cursor ends on
climb_ToParentOnly(tree, v) ==
  IF goto_next_sibling(tree, v) # 0 THEN goto_next_sibling(tree, v)
  ELSE IF goto_parent(tree, v) = 0 THEN v
  ELSE goto_parent(tree, v)

RECURSIVE climb(_, _)
climb(tree, v) ==
  IF goto_next_sibling(tree, v) # 0 THEN goto_next_sibling(tree, v)
  ELSE IF goto_parent(tree, v) = 0 THEN v
  ELSE climb(tree, goto_parent(tree, v))

\* the name appended for a node, as a sequence of zero or one names
name_of(kind) ==
  IF kind = "declaration f" THEN <<"f">>
  ELSE IF kind = "declaration g" THEN <<"g">>
  ELSE << >>

ExtractInput(lang_key, comments, tree) ==
  [lang_key |-> lang_key, source |-> Source, comments |-> comments, tree |-> tree]

ExtractLocInit ==
  [code_bytes |-> << >>, todo |-> << >>, cursor |-> 0, visited |-> << >>,
   found_names |-> << >>]

InitExtractor ==
  /\ \/ \E comments \in CollectedRanges : state = ExtractInput("python", comments, OneNodeTree)
     \/ \E tree \in Trees : state = ExtractInput("python", << >>, tree)
     \/ state = ExtractInput("unknown", << >>, OneNodeTree)
  /\ pc = "extract"
  /\ call = NoCall
  /\ loc = ExtractLocInit
  /\ result = None
  /\ error = None
  /\ response = None
  /\ history = << >>

\* the check of LANGUAGE_MAP, the first parse and collect_comments
ExtractBegin ==
  /\ pc = "extract"
  /\ IF state.lang_key = "unknown"
     THEN /\ result' = Some([contains |-> << >>, code |-> state.source])
          /\ pc' = "returned"
          /\ UNCHANGED loc
     ELSE /\ loc' = [loc EXCEPT !.code_bytes = state.source,
                                !.todo = sorted_reverse(state.comments)]
          /\ pc' = "delete"
          /\ UNCHANGED result
  /\ UNCHANGED <<state, call, error, response, history>>

\* one iteration of the deletion loop
ExtractDelete ==
  /\ pc = "delete"
  /\ loc.todo # << >>
  /\ loc' = [loc EXCEPT !.code_bytes = delete_range(@, Head(loc.todo)),
                        !.todo = Tail(@)]
  /\ UNCHANGED <<state, pc, call, result, error, response, history>>

\* the cleaned code is parsed again and the cursor is put on the root
ExtractReparse ==
  /\ pc = "delete"
  /\ loc.todo = << >>
  /\ loc' = [loc EXCEPT !.cursor = 1]
  /\ pc' = "walk"
  /\ UNCHANGED <<state, call, result, error, response, history>>

\* one iteration of `while True`; the break is the return of the function
ExtractWalk ==
  /\ pc = "walk"
  /\ LET tree == state.tree
         node == loc.cursor
         seen == \E k \in 1..Len(loc.visited) : loc.visited[k] = node
     IN IF seen
        THEN IF goto_next_sibling(tree, node) # 0
             THEN /\ loc' = [loc EXCEPT !.cursor = goto_next_sibling(tree, node)]
                  /\ UNCHANGED <<pc, result>>
             ELSE IF goto_parent(tree, node) = 0
             THEN /\ result' = Some([contains |-> loc.found_names, code |-> loc.code_bytes])
                  /\ pc' = "returned"
                  /\ UNCHANGED loc
             ELSE /\ loc' = [loc EXCEPT !.cursor = goto_parent(tree, node)]
                  /\ UNCHANGED <<pc, result>>
        ELSE /\ loc' = [loc EXCEPT
                   !.visited = Append(@, node),
                   !.found_names = @ \o name_of(tree.kind[node]),
                   !.cursor = IF goto_first_child(tree, node) # 0
                              THEN goto_first_child(tree, node)
                              ELSE climb(tree, node)]
             /\ UNCHANGED <<pc, result>>
  /\ UNCHANGED <<state, call, error, response, history>>

NextExtractor ==
  \/ ExtractBegin
  \/ ExtractDelete
  \/ ExtractReparse
  \/ ExtractWalk

SpecExtractor == InitExtractor /\ [][NextExtractor]_vars

\* the bytes of the source that lie in none of the comment ranges
OutsideComments(source, comments) ==
  SelectSeq(source, LAMBDA b : \A k \in 1..Len(comments) :
                                  ~(comments[k][1] <= b /\ b < comments[k][2]))

\* C24: for every set of comment byte ranges extract_names_and_clean
\* collects, nested ranges included, deleting them in descending start order
\* gives the source without the bytes of the union of the ranges: every byte
\* outside all comment ranges is kept, in order, and nothing else is deleted
C24_CommentDeletionIsExact ==
  (pc = "walk" /\ state.lang_key # "unknown") =>
     loc.code_bytes = OutsideComments(state.source, state.comments)

\* the nodes of the subtree of v in pre-order (document order)
RECURSIVE PreOrder(_, _)
RECURSIVE PreOrderAll(_, _)
PreOrder(tree, v) == << v >> \o PreOrderAll(tree, Children(tree, v))
PreOrderAll(tree, vs) ==
  IF vs = {} THEN << >>
  ELSE LET c == CHOOSE c \in vs : \A d \in vs : c <= d
       IN PreOrder(tree, c) \o PreOrderAll(tree, vs \ {c})

\* the names of the declarations with a name child along a sequence of nodes
RECURSIVE NamesAlong(_, _)
NamesAlong(tree, nodes) ==
  IF nodes = << >> THEN << >>
  ELSE (IF tree.kind[Head(nodes)] = "declaration f" THEN <<"f">>
        ELSE IF tree.kind[Head(nodes)] = "declaration g" THEN <<"g">>
        ELSE << >>) \o NamesAlong(tree, Tail(nodes))

IsPrefix(s, t) == Len(s) <= Len(t) /\ s = SubSeq(t, 1, Len(s))

\* C25: the cursor walk of extract_names_and_clean terminates on every
\* finite tree and visits every node once, in pre-order; the name of each
\* declaration node with a name child is appended once, in that order, and
\* equal names are kept as duplicates
C25_WalkIsPreOrder ==
  /\ [](pc = "walk" =>
          /\ IsPrefix(loc.visited, PreOrder(state.tree, 1))
          /\ loc.found_names = NamesAlong(state.tree, loc.visited))
  /\ []((pc = "returned" /\ state.lang_key # "unknown") =>
          /\ loc.visited = PreOrder(state.tree, 1)
          /\ Len(loc.visited) = state.tree.n
          /\ Val(result).contains = NamesAlong(state.tree, PreOrder(state.tree, 1)))
  /\ [][pc = "walk" =>
          \/ pc' = "returned"
          \/ Len(loc'.visited) = Len(loc.visited) + 1
          \/ (Len(loc.visited) = state.tree.n /\ loc'.cursor < loc.cursor)]_vars

\* the walk has returned from a tree of four nodes in which the last node
\* is not below the third, with the name f found twice
C25_Witness ==
  /\ pc = "returned"
  /\ state.tree.n = 4
  /\ state.tree.parent = <<0, 1, 2, 1>>
  /\ Val(result).contains = <<"f", "g", "f">>

(***************************************************************************)
(* split_code_into_chunks applied to one code at a time                    *)
(***************************************************************************)
MaxLines == 12
MaxChunkSize == 4

\* line counts around the window of the pipeline: one line, one window,
\* one step, one line past a step, two and three windows
PipelineLineCounts == {1, 290, 291, 300, 301, 580, 590, 601}

\* the arguments of a call: the number of lines code.splitlines() gives,
\* lines_per_chunk and overlap with a positive step
SplitInputs ==
  { [n |-> n, lines_per_chunk |-> c, overlap |-> v] :
      n \in 1..MaxLines, c \in 1..MaxChunkSize, v \in 0..(MaxChunkSize - 1) }
  \cup
  { [n |-> n, lines_per_chunk |-> CHUNK_SIZE, overlap |-> CHUNK_OVERLAP] :
      n \in PipelineLineCounts }

InitSplit ==
  /\ state \in { a \in SplitInputs : a.overlap < a.lines_per_chunk }
  /\ pc = "split"
  /\ call = NoCall
  /\ loc = LocInit
  /\ result = None
  /\ error = None
  /\ response = None
  /\ history = << >>

SplitCode_NoOverlap ==
  /\ pc = "split"
  /\ result' = Some(split_code_into_chunks(state.n, state.lines_per_chunk, 0))
  /\ pc' = "split returned"
  /\ UNCHANGED <<state, call, loc, error, response, history>>

\* one call of split_code_into_chunks
SplitCode ==
  /\ pc = "split"
  /\ result' = Some(split_code_into_chunks(state.n, state.lines_per_chunk, state.overlap))
  /\ pc' = "split returned"
  /\ UNCHANGED <<state, call, loc, error, response, history>>

NextSplit == SplitCode

SpecSplit == InitSplit /\ [][NextSplit]_vars

\* C26: for code of n >= 1 lines and overlap V < lines_per_chunk C the
\* function returns ceil(n / (C - V)) chunks; chunk i (from 0) holds the lines
\* [i*(C-V), min(i*(C-V)+C, n)) in their order, so a chunk has at most C
\* lines, every line is in some chunk, and two consecutive chunks of C lines
\* share exactly V lines
C26_ChunksAreOverlappingWindows ==
  pc = "split returned" =>
    LET chunks == Val(result)
        n == state.n
        C == state.lines_per_chunk
        V == state.overlap
        step == C - V
    IN /\ Len(chunks) = (n + step - 1) \div step
       /\ \A i \in 1..Len(chunks) :
            /\ chunks[i].from = (i - 1) * step
            /\ chunks[i].to = Min((i - 1) * step + C, n)
            /\ chunks[i].to - chunks[i].from <= C
            /\ chunks[i].from < chunks[i].to
       /\ \A line \in 0..(n - 1) :
            \E i \in 1..Len(chunks) : chunks[i].from <= line /\ line < chunks[i].to
       /\ \A i \in 1..(Len(chunks) - 1) :
            (chunks[i].to - chunks[i].from = C /\ chunks[i + 1].to - chunks[i + 1].from = C)
              => Cardinality((chunks[i].from..(chunks[i].to - 1))
                             \cap (chunks[i + 1].from..(chunks[i + 1].to - 1))) = V

\* 601 lines with the window of the pipeline: three chunks, the first two of
\* 300 lines sharing the lines 290..299, the last of 21 lines
C26_Witness ==
  /\ pc = "split returned"
  /\ state.n = 601
  /\ state.lines_per_chunk = CHUNK_SIZE
  /\ state.overlap = CHUNK_OVERLAP
  /\ Val(result) = << [from |-> 0, to |-> 300], [from |-> 290, to |-> 590],
                      [from |-> 580, to |-> 601] >>

(***************************************************************************)
(* chunk_summaries applied to one list of summaries at a time              *)
(***************************************************************************)
MaxSummaries == 3

\* len(s) of a summary section: a short one, half the budget less one, half
\* the budget, the budget, and one character more than the budget
SummaryLens ==
  {20, (README_MAX_CHARS \div 2) - 1, README_MAX_CHARS \div 2, README_MAX_CHARS,
   README_MAX_CHARS + 1}

SummaryLists == UNION { [1..k -> SummaryLens] : k \in 0..MaxSummaries }

\* len("\n\n".join(...)) of the summaries a chunk names
RECURSIVE joined_len(_, _)
joined_len(lens, chunk) ==
  IF chunk = << >> THEN 0
  ELSE lens[Head(chunk)] + (IF Len(chunk) > 1 THEN 2 ELSE 0) + joined_len(lens, Tail(chunk))

InitChunks ==
  /\ state \in { [lens |-> lens, max_chars |-> README_MAX_CHARS] : lens \in SummaryLists }
  /\ pc = "chunk"
  /\ call = NoCall
  /\ loc = LocInit
  /\ result = None
  /\ error = None
  /\ response = None
  /\ history = << >>

\* one call of chunk_summaries
ChunkSummaries ==
  /\ pc = "chunk"
  /\ result' = Some(chunk_summaries(state.lens, state.max_chars))
  /\ pc' = "chunk returned"
  /\ UNCHANGED <<state, call, loc, error, response, history>>

NextChunks == ChunkSummaries

SpecChunks == InitChunks /\ [][NextChunks]_vars

\* C27: every chunk chunk_summaries returns has at most max_chars characters,
\* for every list of summaries, a single summary longer than max_chars
\* included, and with the separators that join the summaries of a chunk
\* counted
C27_ChunksWithinBudget ==
  pc = "chunk returned" =>
    \A c \in 1..Len(Val(result)) : joined_len(state.lens, Val(result)[c]) <= state.max_chars

(***************************************************************************)
(* README synthesis: the calls of one stage                                *)
(***************************************************************************)
\* no attempt of the current unit of work has failed
NoFailedAttempt == \A j \in 1..Len(call.hist) : call.hist[j] # "error"

\* C28: in an enabled README stage whose LLM calls all succeed, with k chunks
\* returned by chunk_summaries, the partial calls are made one per chunk in
\* chunk order, each for a chunk that holds at least one file summary; after
\* the k-th the one final call is made with the k partial results in the same
\* order, and readme is written only when that final call has returned
C28_OnePartialCallPerChunkThenFinal ==
  /\ []((pc = "readme" /\ loc.step = "partial" /\ NoFailedAttempt) =>
          /\ loc.c \in 1..Len(loc.chunks)
          /\ Len(loc.partials) = loc.c - 1
          /\ loc.chunks = chunk_summaries(summaries_section(state), README_MAX_CHARS)
          /\ loc.chunks[loc.c] # << >>)
  /\ []((pc = "readme" /\ loc.step = "final" /\ NoFailedAttempt) =>
          /\ Len(loc.partials) = Len(loc.chunks)
          /\ IsNone(state.readme))
  /\ [][ state'.readme # state.readme =>
           /\ pc = "readme" /\ loc.step = "final"
           /\ call.w = "readme" /\ CallOver
           /\ Len(loc.partials) = Len(loc.chunks) ]_vars

(***************************************************************************)
(* parse_analysis_response applied to one answer at a time                 *)
(***************************************************************************)
MaxBullets == 2

PurposeTexts ==
  { << <<"Parses", "the", "files.">> >>,
    << <<"Parses", "the", "files.">>, <<"Feeds", "the", "pipeline.">> >> }

BulletPool == { <<"-", "f()", "-", "parses">>, <<"*", "g()", "-", "renders">> }

BulletLists == UNION { [1..k -> BulletPool] : k \in 0..MaxBullets }

\* the answers in the prompted format
PromptedAnswers ==
  { Prompted(p, f, d) : p \in PurposeTexts, f \in BulletLists, d \in BulletLists }

\* answers in other formats: the short header 'KEY FUNCTIONS:', the purpose
\* between the marks, a header in mixed case, no marks at all, an empty
\* bullet, prose, and the empty answer
OtherAnswers ==
  { Sectioned(<<"KEY", "FUNCTIONS:">>, p, f, d) :
      p \in PurposeTexts, f \in BulletLists, d \in BulletLists }
  \cup
  { << << >>, << <<"PURPOSE:", "Parses", "the", "files.">> >>, << << >> >> >>,
    << << >>, << <<"Purpose:", "Parses", "the", "files.">> >>, << << >> >> >>,
    << << <<"PURPOSE:", "Parses", "the", "files.">>,
          <<"KEY", "FUNCTIONS:">>, <<"-", "f()">>,
          <<"TECHNICAL", "DETAILS:">>, <<"*", "Uses", "tree-sitter">> >> >>,
    << << <<"Key", "Functions:">>, <<"-">>, <<"-", "f()">>, <<"g()">> >> >>,
    << << <<"TECHNICAL", "DETAILS:">>, <<"-", "Uses", "tree-sitter">> >> >>,
    << << <<"This", "file", "parses.">> >> >>,
    << << >> >> }

SymbolLists == { << >>, <<"f">>, <<"a", "b", "c", "d", "e", "g">> }

InitParseAnalysis ==
  /\ state \in { [answer |-> a, symbols |-> syms] :
                   a \in PromptedAnswers \cup OtherAnswers, syms \in SymbolLists }
  /\ pc = "parse analysis"
  /\ call = NoCall
  /\ loc = LocInit
  /\ result = None
  /\ error = None
  /\ response = None
  /\ history = << >>

\* one call of parse_analysis_response
ParseAnalysis ==
  /\ pc = "parse analysis"
  /\ result' = Some(parse_analysis_response(state.answer, state.symbols))
  /\ pc' = "analysis parsed"
  /\ UNCHANGED <<state, call, loc, error, response, history>>

NextParseAnalysis == ParseAnalysis

SpecParseAnalysis == InitParseAnalysis /\ [][NextParseAnalysis]_vars

\* the texts of bullet lines, each without its marker
BulletTexts(bullets) == [k \in 1..Len(bullets) |-> Tail(bullets[k])]

\* C29: for an answer in the format the Analyze prompt requests, with the
\* headers PURPOSE:, KEY FUNCTIONS & COMPONENTS: and TECHNICAL DETAILS: between
\* marks, parse_analysis_response returns purpose equal to the text after the
\* PURPOSE header, functions equal to the bullet lines after the KEY FUNCTIONS
\* header and key_details equal to the bullet lines after the TECHNICAL
\* DETAILS header
C29_PromptedFormatIsParsed ==
  pc = "analysis parsed" =>
    \A p \in PurposeTexts, f \in BulletLists, d \in BulletLists :
      state.answer = Prompted(p, f, d) =>
        /\ Val(result).purpose = p
        /\ Val(result).functions = BulletTexts(f)
        /\ Val(result).key_details = BulletTexts(d)

\* C30: the two fallbacks differ: when the loop extracts no purpose, purpose
\* and summary become the generic placeholder; when it extracts no function
\* lines, functions stays the empty list, whatever the symbols of the file
C30_FallbacksAreAsymmetric ==
  pc = "analysis parsed" =>
    LET extracted == parse_sections(state.answer, 1, NoSections)
    IN /\ extracted.purpose = << >> =>
            /\ Val(result).purpose = GenericPurpose
            /\ Val(result).summary = GenericPurpose
       /\ extracted.functions = << >> => Val(result).functions = << >>

(***************************************************************************)
(* The two Walkers on one file tree                                        *)
(***************************************************************************)
MaxTreeFiles == 2

TreeDirs == { << >>, << <<"node_modules">> >>, << <<"pkg">>, <<"lib">> >> }

TreeNames == { <<"main", "go">>, <<"README", "md">>, <<"notes", "txt">> }

\* a file of the tree by its bytes: whether they are UTF-8, the line
\* terminator they use, the number of lines and the number of characters
\* of the cleaned code that are not line terminators, and what the Extractor
\* makes of the text
TreeFiles ==
  { [path |-> d \o << n >>, utf8 |-> u, eol |-> e, parses |-> ok, lines |-> 3,
     body |-> 80, symbols |-> <<"f">>] :
      d \in TreeDirs, n \in TreeNames, u \in BOOLEAN, e \in {"lf", "crlf"},
      ok \in BOOLEAN }

Trees_OfFiles ==
  UNION { { fs \in [1..n -> TreeFiles] :
              /\ \A i, j \in 1..n : (i # j) => fs[i].path # fs[j].path
              /\ TopDown(fs) } : n \in 0..MaxTreeFiles }

eol_len(e) == IF e = "crlf" THEN 2 ELSE 1

\* bytes.decode('utf-8'): every character of the file, its line terminators
\* as they are
decoded(f) ==
  File(f.path, f.parses, f.lines, f.body + (f.lines - 1) * eol_len(f.eol), f.symbols)

\* open(file_path, "r", encoding="utf-8").read(): text mode with universal
\* newlines, which gives every line terminator as one '\n'
read_text(f) ==
  File(f.path, f.parses, f.lines, f.body + (f.lines - 1) * 1, f.symbols)

\* the path-to-content map of the tree, as fetch_code builds it: the files
\* that do not decode are left out
path_to_content(tree) ==
  LET kept == SelectSeq(tree, LAMBDA f : f.utf8)
  IN [k \in 1..Len(kept) |-> decoded(kept[k])]

\* walk_folder on the tree from file k on: the structure, or the exception
\* of the Extractor, which no handler of walk_folder catches
RECURSIVE walk_folder_from(_, _, _)
walk_folder_from(tree, k, structure) ==
  IF k > Len(tree) THEN [raised |-> FALSE, structure |-> structure]
  ELSE LET f == tree[k] IN
       IF ~walk_opens(f, tree) \/ ~f.utf8
       THEN walk_folder_from(tree, k + 1, structure)
       ELSE IF ~f.parses THEN [raised |-> TRUE, structure |-> << >>]
       ELSE walk_folder_from(tree, k + 1, Append(structure, walk_entry(read_text(f))))

walk_folder(tree) == walk_folder_from(tree, 1, << >>)

InitTree ==
  /\ state \in { [tree |-> t] : t \in Trees_OfFiles }
  /\ pc = "walk disk"
  /\ call = NoCall
  /\ loc = LocInit
  /\ result = None
  /\ error = None
  /\ response = None
  /\ history = << >>

\* walk_folder on the tree
TreeWalkFolder ==
  /\ pc = "walk disk"
  /\ result' = Some([disk |-> walk_folder(state.tree), memory |-> << >>])
  /\ pc' = "walk memory"
  /\ UNCHANGED <<state, call, loc, error, response, history>>

\* parse_code_from_memory on the path-to-content map of the same tree
TreeParseFromMemory ==
  /\ pc = "walk memory"
  /\ result' = Some([Val(result) EXCEPT
                       !.memory = parse_code_from_memory(path_to_content(state.tree))])
  /\ pc' = "walked"
  /\ UNCHANGED <<state, call, loc, error, response, history>>

NextTree ==
  \/ TreeWalkFolder
  \/ TreeParseFromMemory

SpecTree == InitTree /\ [][NextTree]_vars

\* every file is readable UTF-8, the Extractor raises for none, and no
\* directory has a virtual-environment marker child
TreeIsPlain(tree) ==
  /\ \A k \in 1..Len(tree) : tree[k].utf8 /\ tree[k].parses
  /\ \A k \in 1..Len(tree) : \A j \in 1..(Len(tree[k].path) - 1) :
       ~is_virtual_env(SubSeq(tree[k].path, 1, j), tree)

EntrySet(structure) == { structure[k] : k \in 1..Len(structure) }

\* C31: on one and the same file tree in which every file is readable UTF-8,
\* the Extractor raises for no file and no directory has a
\* virtual-environment marker child, walk_folder and parse_code_from_memory
\* select the same relative paths and give each the same record: language,
\* cleaned code and symbols
C31_WalkersAgree ==
  (pc = "walked" /\ TreeIsPlain(state.tree)) =>
    /\ ~Val(result).disk.raised
    /\ EntrySet(Val(result).disk.structure) = EntrySet(Val(result).memory)

(***************************************************************************)
(* fetch_repo_tree: the resolution of the branch                           *)
(***************************************************************************)
\* the branch fetch_code passes: state.branch, or 'main' when there is none
RequestedBranches == {"main", "master", "develop", "feature"}

\* the status codes GitHub answers a request with
StatusCodes == {200, 403, 404, 500}

\* response.ok
ok(status_code) == status_code < 400

ALT_BRANCHES == <<"main", "master", "develop">>

should_try_alternatives_Always(branch) == TRUE

should_try_alternatives(branch) == branch \in {"main", "master"}

BranchLocInit == [requests |-> << >>, answers |-> << >>, branch |-> "", k |-> 1]

InitBranch ==
  /\ state \in { [branch |-> b] : b \in RequestedBranches }
  /\ pc = "branch"
  /\ call = NoCall
  /\ loc = BranchLocInit
  /\ result = None
  /\ error = None
  /\ response = None
  /\ history = << >>

\* the request for the branch the caller named
RequestBranch ==
  /\ pc = "branch"
  /\ \E s \in StatusCodes :
       /\ loc' = [requests |-> << state.branch >>, answers |-> << s >>,
                  branch |-> state.branch, k |-> 1]
       /\ pc' = IF s = 404 /\ should_try_alternatives(state.branch)
                THEN "alternatives" ELSE "check"
  /\ UNCHANGED <<state, call, result, error, response, history>>

\* one iteration of the loop over the alternatives
TryAlternative ==
  /\ pc = "alternatives"
  /\ LET alt_branch == ALT_BRANCHES[loc.k]
         last == loc.k = Len(ALT_BRANCHES)
     IN IF alt_branch = loc.branch
        THEN /\ loc' = [loc EXCEPT !.k = @ + 1]
             /\ pc' = IF last THEN "check" ELSE "alternatives"
        ELSE \E s \in StatusCodes :
               /\ loc' = [loc EXCEPT !.requests = Append(@, alt_branch),
                                     !.answers = Append(@, s),
                                     !.branch = IF ok(s) THEN alt_branch ELSE @,
                                     !.k = @ + 1]
               /\ pc' = IF ok(s) \/ last THEN "check" ELSE "alternatives"
  /\ UNCHANGED <<state, call, result, error, response, history>>

\* the tests of the last response: still 404, 403, raise_for_status
CheckBranch ==
  /\ pc = "check"
  /\ LET s == Last(loc.answers) IN
     IF s = 404
     THEN Raise([class |-> "ValueError", about |-> state.branch])
     ELSE IF s = 403
     THEN Raise([class |-> "HTTPError", about |-> "GitHub API rate limit exceeded"])
     ELSE IF ~ok(s)
     THEN Raise([class |-> "HTTPError", about |-> "raise_for_status"])
     ELSE pc' = "tree" /\ UNCHANGED error
  /\ UNCHANGED <<state, call, loc, result, response, history>>

\* the request for the tree of the commit of the resolved branch
FetchTree ==
  /\ pc = "tree"
  /\ \E s \in StatusCodes :
       /\ loc' = [loc EXCEPT !.requests = Append(@, "tree"), !.answers = Append(@, s)]
       /\ IF ok(s)
          THEN /\ pc' = "returned"
               /\ result' = Some([branch |-> loc.branch])
               /\ UNCHANGED error
          ELSE /\ Raise([class |-> "HTTPError", about |-> "raise_for_status"])
               /\ UNCHANGED result
  /\ UNCHANGED <<state, call, response, history>>

NextBranch ==
  \/ RequestBranch
  \/ TryAlternative
  \/ CheckBranch
  \/ FetchTree

SpecBranch == InitBranch /\ [][NextBranch]_vars

\* the requests for branches, and the alternatives in their order without b
BranchRequests == SelectSeq(loc.requests, LAMBDA r : r # "tree")
AlternativesOf(b) == SelectSeq(<<"main", "master", "develop">>, LAMBDA a : a # b)

\* C32: alternatives are requested only when the requested branch is main or
\* master and answered 404, in the order main, master, develop without the
\* requested one, each only after the ones before answered not OK, and the
\* first that answers OK is used; a custom branch that answers 404 raises
\* ValueError with no alternative requested; when every tried branch answers
\* 404 the ValueError names the requested branch; a final 403 raises the
\* rate-limit HTTPError; the tree is requested only after a branch resolved
C32_BranchResolution ==
  LET b == state.branch
      reqs == BranchRequests
      n == Len(reqs)
      over == pc \in {"tree", "returned", "raised"}
  IN /\ pc # "branch" => reqs[1] = b
     /\ n > 1 => /\ b \in {"main", "master"}
                 /\ loc.answers[1] = 404
                 /\ SubSeq(reqs, 2, n) = SubSeq(AlternativesOf(b), 1, n - 1)
                 /\ \A i \in 2..(n - 1) : loc.answers[i] >= 400
     /\ (pc = "check" /\ b \in {"main", "master"} /\ loc.answers[1] = 404
           /\ \A i \in 1..n : loc.answers[i] >= 400) => n = 3
     /\ (over /\ b \notin {"main", "master"} /\ loc.answers[1] = 404) =>
          /\ pc = "raised"
          /\ error = Some([class |-> "ValueError", about |-> b])
          /\ loc.requests = << b >>
     /\ (over /\ \A i \in 1..n : loc.answers[i] = 404) =>
          /\ pc = "raised"
          /\ error = Some([class |-> "ValueError", about |-> b])
     /\ (over /\ loc.answers[n] = 403) =>
          /\ pc = "raised"
          /\ error = Some([class |-> "HTTPError", about |-> "GitHub API rate limit exceeded"])
     /\ (pc \in {"tree", "returned"} \/ Len(loc.requests) > n) =>
          /\ loc.answers[n] < 400
          /\ loc.branch = reqs[n]
          /\ Len(loc.requests) <= n + 1
     /\ pc = "returned" => Val(result).branch = reqs[n]

\* master answered 404, main 404, develop 200: develop is used and its tree
\* was fetched
C32_Witness ==
  /\ pc = "returned"
  /\ state.branch = "master"
  /\ loc.requests = <<"master", "main", "develop", "tree">>
  /\ loc.answers = <<404, 404, 200, 200>>
  /\ Val(result).branch = "develop"

(***************************************************************************)
(* The documentation records of the DynamoDB table                         *)
(***************************************************************************)
MaxOps == 3
MaxClock == 2

RecordUsers == {"u1", "u2"}

\* a record id: the generated 'DOC#<time to the second>#<uuid4 hex>', the
\* empty string, and an id no item of the table has
RecordId(prefix, at, hex) == [prefix |-> prefix, at |-> at, hex |-> hex]
EmptyId == RecordId("", 0, 0)
UnknownId == RecordId("DOC", 0, 0)

TableInit == [table |-> {}, clock |-> 0, serial |-> 0]

\* the items of a user, and the item under a key
ItemsOf(table, user) == { it \in table : it.userId = user }
ItemAt(table, user, record_id) ==
  { it \in table : it.userId = user /\ it.recordId = record_id }

\* table.put_item: the item replaces the one under its key
put_item(table, item) ==
  (table \ ItemAt(table, item.userId, item.recordId)) \cup {item}

\* table.update_item with SET hasUpdates = :val: the attribute is set on the
\* item under the key, which is created with the key alone when it is absent
update_item(table, user, record_id) ==
  IF ItemAt(table, user, record_id) = {}
  THEN table \cup { [userId |-> user, recordId |-> record_id, recordType |-> None,
                     createdAt |-> None, updatedAt |-> None, hasUpdates |-> TRUE] }
  ELSE { IF it.userId = user /\ it.recordId = record_id
         THEN [it EXCEPT !.hasUpdates = TRUE] ELSE it : it \in table }

record_id_for_AlwaysNew(supplied, generated) == generated

\* the record id of the item: the supplied one unless it is None or empty
record_id_for(supplied, generated) ==
  IF IsNone(supplied) \/ Val(supplied) = EmptyId THEN generated ELSE Val(supplied)

\* the item save_documentation_record builds; uuid4 is taken to give a
\* value it has not given before, which the serial number stands for
new_item(user, supplied, now, serial) ==
  [userId |-> user,
   recordId |-> record_id_for(supplied, RecordId("DOC", now, serial)),
   recordType |-> Some("documentation"),
   createdAt |-> IF IsNone(supplied) THEN Some(now) ELSE None,
   updatedAt |-> Some(now),
   hasUpdates |-> FALSE]

\* the record ids a caller may pass: none, the empty string, an unknown
\* one, and the ids of the items of the table
SuppliedIds(st) ==
  {None, Some(EmptyId), Some(UnknownId)} \cup { Some(it.recordId) : it \in st.table }

InitRecords ==
  /\ state = TableInit
  /\ pc = "serving"
  /\ call = NoCall
  /\ loc = LocInit
  /\ result = None
  /\ error = None
  /\ response = None
  /\ history = << >>

\* one call of save_documentation_record; put_item may raise, and then the
\* handler returns the error status
SaveDocumentationRecord ==
  /\ Len(history) < MaxOps
  /\ \E user \in RecordUsers, supplied \in SuppliedIds(state), put_ok \in BOOLEAN :
       LET item == new_item(user, supplied, state.clock, state.serial + 1) IN
       /\ state' = [state EXCEPT
             !.table = IF put_ok THEN put_item(@, item) ELSE @,
             !.serial = @ + 1]
       /\ result' = IF put_ok
                    THEN Some([status |-> "success", recordId |-> Some(item.recordId),
                               isUpdate |-> Some(~IsNone(supplied))])
                    ELSE Some([status |-> "error", recordId |-> None, isUpdate |-> None])
       /\ history' = Append(history, [op |-> "save", user |-> user, supplied |-> supplied,
                                      before |-> state.table])
  /\ UNCHANGED <<pc, call, loc, error, response>>

\* one call of mark_repo_has_updates
MarkRepoHasUpdates ==
  /\ Len(history) < MaxOps
  /\ \E user \in RecordUsers, supplied \in SuppliedIds(state) \ {None, Some(EmptyId)} :
       /\ state' = [state EXCEPT !.table = update_item(@, user, Val(supplied))]
       /\ result' = Some([status |-> "success", recordId |-> None, isUpdate |-> None])
       /\ history' = Append(history, [op |-> "mark", user |-> user, supplied |-> supplied,
                                      before |-> state.table])
  /\ UNCHANGED <<pc, call, loc, error, response>>

\* time passes between two calls
ClockTick ==
  /\ state.clock < MaxClock
  /\ state' = [state EXCEPT !.clock = @ + 1]
  /\ UNCHANGED <<pc, call, loc, result, error, response, history>>

NextRecords ==
  \/ SaveDocumentationRecord
  \/ MarkRepoHasUpdates
  \/ ClockTick

SpecRecords == InitRecords /\ [][NextRecords]_vars

\* the last call was a save that returned success
LastSaveSucceeded ==
  /\ history # << >>
  /\ Last(history).op = "save"
  /\ Val(result).status = "success"

\* C33: a successful save with the record id of an existing record of the
\* user writes under the same key: the number of the user's records does not
\* grow, the returned recordId is the supplied one and isUpdate is true; a
\* save without record id creates a record under a DOC id no record of the
\* user had, with isUpdate false; after every successful save the record's
\* hasUpdates is false, also when mark_repo_has_updates had set it before
C33_SaveUpdatesInPlace ==
  LastSaveSucceeded =>
    LET h == Last(history)
        rid == Val(Val(result).recordId)
        now == ItemAt(state.table, h.user, rid)
    IN /\ Cardinality(now) = 1
       /\ \A it \in now : ~it.hasUpdates
       /\ (~IsNone(h.supplied) /\ ItemAt(h.before, h.user, Val(h.supplied)) # {}) =>
            /\ rid = Val(h.supplied)
            /\ Val(result).isUpdate = Some(TRUE)
            /\ Cardinality(ItemsOf(state.table, h.user))
                 = Cardinality(ItemsOf(h.before, h.user))
       /\ IsNone(h.supplied) =>
            /\ rid.prefix = "DOC"
            /\ ItemAt(h.before, h.user, rid) = {}
            /\ Val(result).isUpdate = Some(FALSE)
            /\ Cardinality(ItemsOf(state.table, h.user))
                 = Cardinality(ItemsOf(h.before, h.user)) + 1
       /\ \A it \in h.before : it.userId # h.user => it \in state.table

\* a record was created, marked as having updates, and saved again under
\* its id: one record, flag false
C33_Witness ==
  /\ Len(history) = 3
  /\ history[1].op = "save" /\ IsNone(history[1].supplied)
  /\ history[2].op = "mark" /\ history[2].user = history[1].user
  /\ \E it \in history[3].before : it.userId = history[1].user /\ it.hasUpdates
                                     /\ history[3].supplied = Some(it.recordId)
  /\ history[3].op = "save" /\ history[3].user = history[1].user
  /\ Val(result).status = "success"
  /\ Cardinality(ItemsOf(state.table, history[1].user)) = 1
  /\ \A it \in state.table : ~it.hasUpdates

\* C39: the createdAt written when a documentation record is created is
\* still in the stored record, with the same value, after every later
\* save_documentation_record update of that record id
C39_CreatedAtSurvivesUpdates ==
  [][ \A it \in state.table :
        ~IsNone(it.createdAt) =>
          \E kept \in ItemAt(state'.table, it.userId, it.recordId) :
            kept.createdAt = it.createdAt ]_vars

(***************************************************************************)
(* get_jwks: the module-level JWKS cache, called from request threads      *)
(***************************************************************************)
CACHE_DURATION == 3600
MaxCalls == 4
MaxTicks == 2

\* get_current_user is a plain def dependency: FastAPI runs it, and get_jwks
\* below it, on the threads of its pool
Threads == {"t1", "t2"}

\* the seconds between two readings of the clock the model tells apart
TickSeconds == CACHE_DURATION \div 2

ThreadInit ==
  [pc |-> "idle", current_time |-> 0, keys_seen |-> 0, expires_seen |-> 0,
   requests |-> 0, jwks |-> 0]

\* _jwks_cache as the module defines it; keys 0 is None, and a fetched key
\* set is named by the number of its fetch
JwksInit ==
  [cache |-> [keys |-> 0, expires_at |-> 0], clock |-> TickSeconds, calls |-> 0]

InitJwks ==
  /\ state = JwksInit
  /\ pc = "serving"
  /\ call = NoCall
  /\ loc = [t \in Threads |-> ThreadInit]
  /\ result = [t \in Threads |-> [outcome |-> "none", keys |-> 0]]
  /\ error = None
  /\ response = None
  /\ history = << >>

\* a request thread enters get_jwks and reads time.time()
JwksCall(t) ==
  /\ loc[t].pc = "idle"
  /\ state.calls < MaxCalls
  /\ loc' = [loc EXCEPT ![t] = [ThreadInit EXCEPT !.pc = "test keys",
                                                  !.current_time = state.clock]]
  /\ state' = [state EXCEPT !.calls = @ + 1]
  /\ UNCHANGED <<pc, call, result, error, response, history>>

\* the left operand of the test: _jwks_cache['keys']
JwksTestKeys(t) ==
  /\ loc[t].pc = "test keys"
  /\ loc' = [loc EXCEPT ![t].keys_seen = state.cache.keys,
                        ![t].pc = IF state.cache.keys # 0 THEN "test expiry" ELSE "fetch"]
  /\ UNCHANGED <<state, pc, call, result, error, response, history>>

JwksTestExpiry_NeverExpires(t) ==
  /\ loc[t].pc = "test expiry"
  /\ loc' = [loc EXCEPT ![t].expires_seen = state.cache.expires_at,
                        ![t].pc = "return cached"]
  /\ UNCHANGED <<state, pc, call, result, error, response, history>>

\* the right operand: current_time < _jwks_cache['expires_at']
JwksTestExpiry(t) ==
  /\ loc[t].pc = "test expiry"
  /\ loc' = [loc EXCEPT ![t].expires_seen = state.cache.expires_at,
                        ![t].pc = IF loc[t].current_time < state.cache.expires_at
                                  THEN "return cached" ELSE "fetch"]
  /\ UNCHANGED <<state, pc, call, result, error, response, history>>

\* return _jwks_cache['keys']
JwksReturnCached(t) ==
  /\ loc[t].pc = "return cached"
  /\ result' = [result EXCEPT ![t] = [outcome |-> "keys", keys |-> state.cache.keys]]
  /\ loc' = [loc EXCEPT ![t].pc = "idle"]
  /\ UNCHANGED <<state, pc, call, error, response, history>>

\* requests.get, raise_for_status and response.json(): the key set, or the
\* RequestException the handler turns into the 503 HTTPException
JwksFetch(t) ==
  /\ loc[t].pc = "fetch"
  /\ \E fetched \in BOOLEAN :
       /\ history' = Append(history, [thread |-> t, at |-> loc[t].current_time,
                                      ok |-> fetched, cache |-> state.cache])
       /\ IF fetched
          THEN /\ loc' = [loc EXCEPT ![t].jwks = Len(history) + 1, ![t].requests = @ + 1,
                                     ![t].pc = "store keys"]
               /\ UNCHANGED result
          ELSE /\ loc' = [loc EXCEPT ![t].requests = @ + 1, ![t].pc = "idle"]
               /\ result' = [result EXCEPT ![t] = [outcome |-> "503", keys |-> 0]]
  /\ UNCHANGED <<state, pc, call, error, response>>

\* _jwks_cache['keys'] = jwks
JwksStoreKeys(t) ==
  /\ loc[t].pc = "store keys"
  /\ state' = [state EXCEPT !.cache.keys = loc[t].jwks]
  /\ loc' = [loc EXCEPT ![t].pc = "store expiry"]
  /\ UNCHANGED <<pc, call, result, error, response, history>>

\* _jwks_cache['expires_at'] = current_time + CACHE_DURATION; return jwks
JwksStoreExpiry(t) ==
  /\ loc[t].pc = "store expiry"
  /\ state' = [state EXCEPT !.cache.expires_at = loc[t].current_time + CACHE_DURATION]
  /\ result' = [result EXCEPT ![t] = [outcome |-> "keys", keys |-> loc[t].jwks]]
  /\ loc' = [loc EXCEPT ![t].pc = "idle"]
  /\ UNCHANGED <<pc, call, error, response, history>>

\* time passes
JwksTick ==
  /\ state.clock < (MaxTicks + 1) * TickSeconds
  /\ state' = [state EXCEPT !.clock = @ + TickSeconds]
  /\ UNCHANGED <<pc, call, loc, result, error, response, history>>

NextJwks ==
  \/ \E t \in Threads : JwksCall(t)
  \/ \E t \in Threads : JwksTestKeys(t)
  \/ \E t \in Threads : JwksTestExpiry(t)
  \/ \E t \in Threads : JwksReturnCached(t)
  \/ \E t \in Threads : JwksFetch(t)
  \/ \E t \in Threads : JwksStoreKeys(t)
  \/ \E t \in Threads : JwksStoreExpiry(t)
  \/ JwksTick

SpecJwks == InitJwks /\ [][NextJwks]_vars

\* the step in which thread t sends its request
Fetches(t) == Len(history') = Len(history) + 1 /\ history'[Len(history')].thread = t

\* the step in which get_jwks returns to thread t
Returns(t) == loc[t].pc # "idle" /\ loc'[t].pc = "idle"

\* the cache as thread t read it was populated and not yet expired
SawFresh(t) == loc[t].keys_seen # 0 /\ loc[t].current_time < loc[t].expires_seen

\* C34: get_jwks returns the cached keys without a network request whenever
\* it read a populated cache whose expires_at is after the current time, and
\* fetches otherwise; a successful fetch sets expires_at to the time of the
\* fetch plus 3600 seconds; a failed fetch raises 503 and leaves the cache
\* unchanged; keys are never returned with their expiry in the past.
C34_CacheForOneHour ==
  [][\A t \in Threads :
       /\ Fetches(t) => ~SawFresh(t)
       /\ (Returns(t) /\ ~Fetches(t) /\ loc[t].requests = 0) =>
             /\ SawFresh(t)
             /\ result'[t] = [outcome |-> "keys", keys |-> state.cache.keys]
             /\ history' = history
       /\ (Returns(t) /\ SawFresh(t)) => loc'[t].requests = 0
       /\ (Returns(t) /\ loc[t].pc = "store expiry") =>
             /\ state'.cache.expires_at = history[loc[t].jwks].at + CACHE_DURATION
             /\ CACHE_DURATION = 3600
             /\ result'[t] = [outcome |-> "keys", keys |-> loc[t].jwks]
       /\ (Fetches(t) /\ ~history'[Len(history')].ok) =>
             /\ state'.cache = state.cache
             /\ result'[t].outcome = "503"
             /\ Returns(t)
       /\ (Returns(t) /\ result'[t].outcome = "keys") =>
             \/ loc[t].current_time < loc[t].expires_seen
             \/ loc[t].current_time < state'.cache.expires_at]_vars

\* a call answered from the cache, after an hour-old key set was replaced and
\* a fetch failed
C34_Witness ==
  /\ \E t \in Threads :
        /\ loc[t].pc = "idle"
        /\ result[t].outcome = "keys"
        /\ loc[t].keys_seen # 0
        /\ loc[t].requests = 0
  /\ \E i \in DOMAIN history : ~history[i].ok
  /\ \E i \in DOMAIN history : history[i].ok /\ history[i].cache.keys # 0

\* the expires_at that the fetch of key set k stores
expiry_of(k) == history[k].at + CACHE_DURATION

\* C35: the JWKS cache is internally synchronized: with several request
\* threads in get_jwks, no request is sent within the expiry period of a
\* successful fetch, and no caller reads keys of one fetch together with the
\* expires_at of another, or an expires_at in the future with no keys.
C35_CacheIsSynchronized ==
  /\ \A i, j \in DOMAIN history :
        (i < j /\ history[i].ok) => history[j].at >= expiry_of(i)
  /\ \A t \in Threads :
        loc[t].pc \in {"return cached", "fetch"} =>
          /\ (loc[t].keys_seen # 0 /\ loc[t].requests = 0) =>
                loc[t].expires_seen = expiry_of(loc[t].keys_seen)
          /\ loc[t].keys_seen = 0 => loc[t].expires_seen <= loc[t].current_time

(***************************************************************************)
(* parse_llm_summary_response and the summary of a file, on the characters *)
(* of the collaborator's answers                                           *)
(***************************************************************************)
MaxLineLen == 4
MaxRespLines == 2

\* a dash, a blank and a word character
Chars == {"-", " ", "a"}

RECURSIVE StringsUpTo(_)
StringsUpTo(n) ==
  IF n = 0 THEN {<< >>}
  ELSE LET shorter == StringsUpTo(n - 1)
       IN shorter \cup {Append(s, c) : s \in {x \in shorter : Len(x) = n - 1}, c \in Chars}

\* a sentence and a bullet, the lines that surround the line under test
ContextLines == {<<"a", " ", "a">>, <<"-", " ", "a">>}

RECURSIVE LinesUpTo(_, _)
LinesUpTo(pool, n) ==
  IF n = 0 THEN {<< >>}
  ELSE LET shorter == LinesUpTo(pool, n - 1)
       IN shorter \cup {Append(r, l) : r \in {x \in shorter : Len(x) = n - 1}, l \in pool}

\* what one chunk's safe_llm_call ended with: the lines of the answer, or the
\* exception that summarize_code_node catches
ChunkOutcomes(pool) ==
  {[ok |-> FALSE, lines |-> << >>]}
    \cup {[ok |-> TRUE, lines |-> r] : r \in LinesUpTo(pool, MaxRespLines)}

\* str.strip(chars), one end and both
RECURSIVE lstrip_chars(_, _)
lstrip_chars(s, cs) ==
  IF s # << >> /\ Head(s) \in cs THEN lstrip_chars(Tail(s), cs) ELSE s

strip_chars(s, cs) == Reverse(lstrip_chars(Reverse(lstrip_chars(s, cs)), cs))

Whitespace == {" "}

\* line.strip().startswith("-")
is_bullet_line(line) ==
  LET s == strip_chars(line, Whitespace) IN s # << >> /\ Head(s) = "-"

\* re.match(r"([\w_]+)\s*[:\-]\s*(.+)", line): word characters, a separator
\* and a rest; the symbol and the rest, or no match
pattern_match(line) ==
  LET after_word == lstrip_chars(line, {"a"})
      at_sep == lstrip_chars(after_word, Whitespace)
  IN IF /\ after_word # line
        /\ at_sep # << >>
        /\ Head(at_sep) = "-"
        /\ Tail(at_sep) # << >>
     THEN Some([symbol |-> SubSeq(line, 1, Len(line) - Len(after_word)),
                rest |-> Tail(at_sep)])
     ELSE None

structured_entry_KeepsLine(line) ==
  [symbol |-> None, summary |-> line]

\* lines 19 and 25-31: the text of a bullet line and its entry
structured_entry(line) ==
  LET text == strip_chars(strip_chars(line, {"-", " "}), Whitespace)
      m == pattern_match(text)
  IN IF IsNone(m)
     THEN [symbol |-> None, summary |-> text]
     ELSE [symbol |-> Some(strip_chars(Val(m).symbol, Whitespace)),
           summary |-> strip_chars(Val(m).rest, Whitespace)]

\* parse_llm_summary_response on the lines of response.strip(): the blank
\* lines that strip() removes at the two ends are no bullet lines
parse_summary_lines(lines) ==
  LET bullets == SelectSeq(lines, is_bullet_line)
  IN [k \in 1..Len(bullets) |-> structured_entry(bullets[k])]

\* all_structured_summaries after the loop over the chunks
RECURSIVE all_structured_summaries(_)
all_structured_summaries(outcomes) ==
  IF outcomes = << >> THEN << >>
  ELSE (IF Head(outcomes).ok THEN parse_summary_lines(Head(outcomes).lines) ELSE << >>)
         \o all_structured_summaries(Tail(outcomes))

\* " ".join of the summaries that are not empty, stripped
RECURSIVE join_summaries(_)
join_summaries(acc) ==
  IF acc = << >> THEN << >>
  ELSE LET rest == join_summaries(Tail(acc))
       IN IF Head(acc).summary = << >> THEN rest
          ELSE IF rest = << >> THEN Head(acc).summary
          ELSE Head(acc).summary \o <<" ">> \o rest

NoSummaryChars == <<"No summary available.">>

InitBullets ==
  /\ \E probe \in StringsUpTo(MaxLineLen) :
       LET outs == ChunkOutcomes(ContextLines \cup {probe})
       IN state \in {<<a>> : a \in outs}
                      \cup {<<a, b>> : a \in outs, b \in ChunkOutcomes(ContextLines)}
  /\ pc = "chunks"
  /\ call = NoCall
  /\ loc = LocInit
  /\ result = None
  /\ error = None
  /\ response = None
  /\ history = << >>

\* summarize_code_node from the loop over the chunks of a file with code to
\* its return: summaries[file_path] and the summary of its readme_summaries entry
SummarizeOutcomes ==
  /\ pc = "chunks"
  /\ LET combined == strip_chars(join_summaries(all_structured_summaries(state)), Whitespace)
     IN result' = Some([summaries |-> combined,
                        readme_summary |-> IF combined # << >> THEN combined
                                           ELSE NoSummaryChars])
  /\ pc' = "done"
  /\ UNCHANGED <<state, call, loc, error, response, history>>

NextBullets == SummarizeOutcomes

SpecBullets == InitBullets /\ [][NextBullets]_vars

\* a line of the answer that starts with '-' and has text after it other than
\* dashes and blanks
HasBulletText(line) ==
  LET s == strip_chars(line, Whitespace)
  IN /\ s # << >>
     /\ Head(s) = "-"
     /\ \E k \in 2..Len(s) : s[k] \notin {"-", " "}

\* a line of the answer that starts with '-' and has anything after it
HasBulletTail(line) ==
  LET s == strip_chars(line, Whitespace)
  IN s # << >> /\ Head(s) = "-" /\ Len(s) > 1

C37_VisualizeNeverRaises ==
  [][ (pc = "visualize" /\ ~NoParsedData(state)) =>
        /\ pc' # "raised"
        /\ error' = error
        /\ pc' # "visualize" =>
              /\ pc' = "analyze"
              /\ ~IsNone(state'.visuals)
              /\ Val(state'.visuals).folder_structure_mermaid
                    \in {"llm diagram", "fallback diagram"} ]_vars

\* C38: every chunk that split_code_into_chunks returns holds at least one
\* line that the chunk before it does not hold, for every line count (such as
\* 291 to 300 lines with the pipeline's chunk size 300 and overlap 10), so no
\* summarization call is made for a chunk that only repeats the end of the
\* one before.
C38_EveryChunkHasANewLine ==
  pc = "split returned" =>
    LET chunks == Val(result)
    IN \A k \in 2..Len(chunks) :
         \E line \in chunks[k].from .. (chunks[k].to - 1) :
           ~(chunks[k - 1].from <= line /\ line < chunks[k - 1].to)

(***************************************************************************)
(* run_pipeline with every call of the LLM collaborator counted            *)
(***************************************************************************)
\* the repository of the counted runs: a file of two Summarize chunks
CountedRepos == { << F_big >> }

InitCounted ==
  /\ \E r \in CountedRepos, p \in Preferences :
       state = NewState("upload", DictInput(r), p)
  /\ pc = "fetch"
  /\ call = NoCall
  /\ loc = LocInit
  /\ result = None
  /\ error = None
  /\ response = None
  /\ history = << >>

\* the patterns of successes and failures: one answer of each wrapper, an
\* error that every wrapper retries and one that only some do
CountedResponse(w) ==
  CASE w = "summarize" -> "bullet"
    [] w = "readme"    -> "markdown"
    [] w = "visualize" -> "diagram"
    [] w = "analyze"   -> "sections"

CountedErrors == {"429 Too Many Requests", "401 invalid api key"}

\* one pass through the try statement of a wrapper; history lists the
\* wrappers whose collaborator calls were made, in order
LLMCallCounted ==
  /\ llm_attempt({CountedResponse(call.w)}, CountedErrors)
  /\ history' = Append(history, call.w)
  /\ UNCHANGED response

NextCounted ==
  \/ Fetch
  \/ Parse
  \/ SummarizeFile
  \/ SummarizeChunkDone
  \/ SummarizeReturn
  \/ ReadmeBegin
  \/ ReadmePartialDone
  \/ ReadmeFinalDone
  \/ VisualizeBegin
  \/ VisualizePhaseDone
  \/ VisualizeStore
  \/ AnalyzeBegin
  \/ AnalyzeFile
  \/ AnalyzeFileDone
  \/ AnalyzeStore
  \/ Return
  \/ LLMCallCounted
  \/ LLMSleep

\* the statements of run_pipeline run one after the other and every call of
\* the collaborator and every sleep ends: a step that can be taken is taken
SpecCounted == InitCounted /\ [][NextCounted]_vars /\ WF_vars(NextCounted)

\* the chunks the Summarize stage makes of the files it does not skip
RECURSIVE summarize_chunk_count(_, _)
summarize_chunk_count(st, k) ==
  IF k > Len(RepoData(st)) THEN 0
  ELSE (IF summarize_skips(st, RepoData(st)[k]) THEN 0
        ELSE Len(split_code_into_chunks(RepoData(st)[k].code.lines, CHUNK_SIZE, CHUNK_OVERLAP)))
       + summarize_chunk_count(st, k + 1)

\* the chunks generate_readme makes of state.readme_summaries
readme_chunk_count(st) == Len(chunk_summaries(summaries_section(st), README_MAX_CHARS))

\* the units of work of the claim: Summarize chunks, README chunks, the final
\* README call, the three Visualize phases and the Analyze-eligible files
WorkUnits(st) ==
  (IF NoParsedData(st) THEN 0 ELSE summarize_chunk_count(st, 1))
    + readme_chunk_count(st) + 1 + 3
    + (IF NoParsedData(st) THEN 0 ELSE Len(EligibleFiles(st)))

\* C40: run_pipeline ends for every repository and every pattern of LLM
\* successes and failures, by returning a result or by raising, and it makes
\* at most 5 collaborator calls for each Summarize chunk, README chunk, the
\* final README call, each of the 3 Visualize phases and each
\* Analyze-eligible file: no wrapper call makes more than 5, and the total is
\* at most 5 times the number of these units.
C40_TerminatesWithinCallBudget ==
  /\ <>(pc \in {"done", "raised"})
  /\ [](pc = "done" => ~IsNone(result))
  /\ [](pc = "raised" => ~IsNone(error))
  /\ [](Len(call.hist) <= 5)
  /\ [](Len(history) <= 5 * WorkUnits(state))

\* a run that returned after a Summarize chunk used all five attempts of its
\* wrapper and calls of every stage were made
C40_Witness ==
  /\ pc = "done"
  /\ ~IsNone(result)
  /\ \E k \in 1..(Len(history) - 4) :
        \A j \in k..(k + 4) : history[j] = "summarize"
  /\ \A w \in Wrappers : \E k \in DOMAIN history : history[k] = w
====
